---- MODULE Spec2Model ----
(***************************************************************************)
(* icebox: encrypting cold-storage client.                                 *)
(*                                                                         *)
(* The model follows the command-line operations of src/src/icebox/cli.py  *)
(* (init, put, get, delete, refresh) through Box (src/src/icebox/box.py),  *)
(* the SQLite catalog and the folder and S3 backends.  Python strings are  *)
(* sequences of one-character strings, so that endswith and slicing are    *)
(* computed as the code computes them.                                     *)
(*                                                                         *)
(* One command runs at a time (the program is single-threaded).  A command *)
(* is split at its backend calls and catalog writes; between two steps the *)
(* process may be killed, which discards the command's in-memory state and *)
(* keeps the catalog and the backend.  Every backend call may raise.       *)
(***************************************************************************)
EXTENDS Integers, Sequences, FiniteSets, TLC

VARIABLES
    config,     \* config.yml of the box: "absent", or the backend name
    sources,    \* catalog table sources: set of rows
    jobs,       \* catalog table jobs: set of rows [name, key]
    files,      \* objects held by the backend
    uuid,       \* number of uuid4 base names drawn so far
    op,         \* the running command: program counter and local variables
    stored      \* history: name -> content of the last put that saved it

vars == <<config, sources, jobs, files, uuid, op, stored>>

-----------------------------------------------------------------------------
(* Bounds *)

MaxUuid == 2            \* base names _backend_names may draw in one run
MaxBase == 2            \* length of the base of a name given to _sibling
MaxStream == 6          \* length of the stream an OffsetRangeWrapper is given
MaxOpens == 2           \* instances of SQLite opened on one path, one after another
MaxInits == 3           \* init commands given for one box, one after another
MaxParts == 5           \* parts of the largest archive given to the Glacier store

-----------------------------------------------------------------------------
(* Strings *)

None == <<"<None>">>                        \* Python None, SQL NULL
NoSize == -1                                \* None where a size is expected

DATA_SUFFIX == <<".", "d", "a", "t", "a">>
META_SUFFIX == <<".", "m", "e", "t", "a">>
ZIP_SUFFIX == <<".", "z", "i", "p">>
INVENTORY_JOB == <<":", ":", "i", "n", "v", "e", "n", "t", "o", "r", "y", ":", ":">>
INVENTORY_KEY == <<"i", "n", "v", "e", "n", "t", "o", "r", "y">>

EndsWith(s, suffix) ==
    /\ Len(s) >= Len(suffix)
    /\ SubSeq(s, Len(s) - Len(suffix) + 1, Len(s)) = suffix

DropLast(s, n) == SubSeq(s, 1, Len(s) - n)

Names == {<<"a">>, <<"b">>}                 \* source names given on the command line

\* What is stored: the file 'test' or the directory 'folder' (foo, bar), as
\* it is at the n-th put; the directory is put with a comment.
NoContent == <<"none", 0>>
FileContent(n) == <<"file: test", n>>
DirContent(n) == <<"dir: foo, bar", n>>
Inputs ==
    {[name |-> <<"a">>, kind |-> "file", comment |-> None],
     [name |-> <<"b">>, kind |-> "dir", comment |-> <<"n">>]}

-----------------------------------------------------------------------------
(* data.py *)

Source(name) ==
    [name |-> name, comment |-> None, size |-> NoSize,
     data_key |-> None, meta_key |-> None]

NoSource == Source(None)

BackendFile(key, name, size) == [key |-> key, name |-> name, size |-> size]

-----------------------------------------------------------------------------
(* The archive pair: icepack's create_archive / _export_metadata /         *)
(* IcepackReader / extract_archive, as Box uses them.                      *)

NoBody == [archive_name |-> None, comment |-> None, content |-> NoContent]

\* create_archive(src_path, data_path = src_path.name + '.zip', comment=...)
create_archive(input, n) ==
    [archive_name |-> input.name \o ZIP_SUFFIX,
     comment |-> input.comment,
     content |-> IF input.kind = "file" THEN FileContent(n) ELSE DirContent(n)]

\* _export_metadata: the metadata of the data archive, without the content
export_metadata(data) ==
    [archive_name |-> data.archive_name, comment |-> data.comment, content |-> NoContent]

\* extract_archive: the content that was packed
extract_archive(data) == data.content

\* st_size of an archive file
SizeOf(body) ==
    IF body.content[1] = FileContent(0)[1] THEN 5
    ELSE IF body.content[1] = DirContent(0)[1] THEN 8 ELSE 3

\* _backend_names(): a fresh base name plus the two suffixes
backend_names(n) ==
    [data_name |-> <<ToString(n)>> \o DATA_SUFFIX,
     meta_name |-> <<ToString(n)>> \o META_SUFFIX]

\* Variant of _sibling: a metadata name is returned as it is
sibling_of_data_only(name) ==
    IF EndsWith(name, DATA_SUFFIX)
    THEN DropLast(name, Len(DATA_SUFFIX)) \o META_SUFFIX
    ELSE IF EndsWith(name, META_SUFFIX)
    THEN name
    ELSE <<"error">>

\* _sibling(name); "error" stands for the exception
sibling(name) ==
    IF EndsWith(name, DATA_SUFFIX)
    THEN DropLast(name, Len(DATA_SUFFIX)) \o META_SUFFIX
    ELSE IF EndsWith(name, META_SUFFIX)
    THEN DropLast(name, Len(META_SUFFIX)) \o DATA_SUFFIX
    ELSE <<"error">>

-----------------------------------------------------------------------------
(* class SQLite: the statements, on the tables *)

load_source(srcs, name) ==
    IF \E s \in srcs : s.name = name
    THEN CHOOSE s \in srcs : s.name = name
    ELSE NoSource

\* A save_source written as INSERT OR REPLACE
save_source_replace(srcs, src) ==
    [ok |-> TRUE, sources |-> {s \in srcs : s.name # src.name} \cup {src}]

\* INSERT INTO sources: name UNIQUE NOT NULL, size / data_key / meta_key NOT NULL
save_source(srcs, src) ==
    IF \/ \E s \in srcs : s.name = src.name
       \/ src.name = None
       \/ src.size = NoSize
       \/ src.data_key = None
       \/ src.meta_key = None
    THEN [ok |-> FALSE, sources |-> srcs]
    ELSE [ok |-> TRUE, sources |-> srcs \cup {src}]

\* The byte of a character of a name (ASCII)
Code(c) ==
    CASE c = "A" -> 65 [] c = "B" -> 66 [] c = "a" -> 97 [] c = "b" -> 98
      [] OTHER -> 0

\* COLLATE NOCASE: the 26 upper case letters of ASCII are folded to lower case
NoCase(c) == IF Code(c) >= 65 /\ Code(c) <= 90 THEN Code(c) + 32 ELSE Code(c)

\* Comparison of two texts byte by byte (x and y are sequences of byte
\* values); a proper prefix is less
RECURSIVE LessBy(_, _)
LessBy(x, y) ==
    IF y = <<>> THEN FALSE
    ELSE IF x = <<>> THEN TRUE
    ELSE IF Head(x) # Head(y) THEN Head(x) < Head(y)
    ELSE LessBy(Tail(x), Tail(y))

\* ORDER BY name without COLLATE NOCASE: the collation BINARY
less_binary(x, y) ==
    LessBy([i \in DOMAIN x |-> Code(x[i])], [i \in DOMAIN y |-> Code(y[i])])

\* ORDER BY name COLLATE NOCASE
less_nocase(x, y) ==
    LessBy([i \in DOMAIN x |-> NoCase(x[i])], [i \in DOMAIN y |-> NoCase(y[i])])

\* The rows of a table in some order
Orders(rows) ==
    {q \in [1..Cardinality(rows) -> rows] :
        \A i \in DOMAIN q, j \in DOMAIN q : i # j => q[i] # q[j]}

\* SELECT ... FROM sources ORDER BY name COLLATE NOCASE: the orders the
\* statement may return (rows whose names compare equal come in any order)
load_sources(srcs) ==
    {q \in Orders(srcs) :
        \A i \in DOMAIN q, j \in DOMAIN q :
            i < j => ~less_nocase(q[j].name, q[i].name)}

\* A delete_source that leaves the row
delete_source_nothing(srcs, name) == srcs

delete_source(srcs, name) == {s \in srcs : s.name # name}

load_job(jbs, name) ==
    IF \E j \in jbs : j.name = name
    THEN (CHOOSE j \in jbs : j.name = name).key
    ELSE None

\* A save_job written as INSERT OR REPLACE
save_job_replace(jbs, name, key) ==
    [ok |-> TRUE, jobs |-> {j \in jbs : j.name # name} \cup {[name |-> name, key |-> key]}]

\* A save_job on a table whose name column is not UNIQUE
save_job_not_unique(jbs, name, key) ==
    [ok |-> TRUE, jobs |-> jbs \cup {[name |-> name, key |-> key]}]

\* A save_job that returns without writing the row
save_job_unsaved(jbs, name, key) == [ok |-> TRUE, jobs |-> jbs]

\* INSERT INTO jobs: name UNIQUE NOT NULL, key NOT NULL
save_job(jbs, name, key) ==
    IF \/ \E j \in jbs : j.name = name
       \/ name = None
       \/ key = None
    THEN [ok |-> FALSE, jobs |-> jbs]
    ELSE [ok |-> TRUE, jobs |-> jbs \cup {[name |-> name, key |-> key]}]

delete_job(jbs, name) == {j \in jbs : j.name # name}

\* A contains that finds every name
contains_any(srcs, name) == TRUE

\* Box.contains
contains(srcs, name) == load_source(srcs, name) # NoSource

-----------------------------------------------------------------------------
(* Backends: folder.py and s3.py.  An object is                            *)
(* [key, body, class, restore]; the folder keeps class "STANDARD".         *)

Backends == {"folder", "s3"}

Exists(fs, key) == \E f \in fs : f.key = key
Object(fs, key) == CHOOSE f \in fs : f.key = key

\* _store: copy / upload under the given name, the name is the retrieval key
backend_store(kind, fs, name, body, class) ==
    {f \in fs : f.key # name} \cup
    {[key |-> name, body |-> body,
      class |-> IF kind = "s3" THEN class ELSE "STANDARD",
      restore |-> "none"]}

\* A store_data that uploads the metadata-only archive under the data name
store_data_of_metadata(kind, fs, name, body) ==
    backend_store(kind, fs, name, export_metadata(body), "ARCHIVE")

\* A store_data that returns the name without uploading
store_data_lost(kind, fs, name, body) == fs

\* store_data: S3 uses the box's storage class (GLACIER or DEEP_ARCHIVE)
store_data(kind, fs, name, body) == backend_store(kind, fs, name, body, "ARCHIVE")

\* A store_meta that returns the name without uploading
store_meta_skipped(kind, fs, name, body) == fs

\* store_meta: S3 uses STANDARD
store_meta(kind, fs, name, body) == backend_store(kind, fs, name, body, "STANDARD")

\* retrieve_init: [ok, job, files]; S3 requests a restore of an archived object
retrieve_init(kind, fs, key) ==
    IF kind = "folder"
    THEN [ok |-> TRUE, job |-> key, files |-> fs]
    ELSE IF ~Exists(fs, key)
    THEN [ok |-> FALSE, job |-> None, files |-> fs]
    ELSE LET obj == Object(fs, key) IN
         IF obj.class # "STANDARD" /\ obj.restore = "none"
         THEN [ok |-> TRUE, job |-> key,
               files |-> (fs \ {obj}) \cup {[obj EXCEPT !.restore = "running"]}]
         ELSE [ok |-> TRUE, job |-> key, files |-> fs]

\* retrieve_status: "running", "success", "failure", or "error" for an exception
retrieve_status(kind, fs, job) ==
    IF kind = "folder"
    THEN IF Exists(fs, job) THEN "success" ELSE "failure"
    ELSE IF ~Exists(fs, job) THEN "error"
    ELSE LET obj == Object(fs, job) IN
         IF obj.class = "STANDARD" THEN "success"
         ELSE IF obj.restore = "none" THEN "failure"
         ELSE IF obj.restore = "running" THEN "running"
         ELSE "success"

\* retrieve_finish: [ok, body]
retrieve_finish(kind, fs, job) ==
    IF ~Exists(fs, job)
    THEN [ok |-> FALSE, body |-> NoBody]
    ELSE LET obj == Object(fs, job) IN
         IF kind = "s3" /\ obj.class # "STANDARD" /\ obj.restore # "complete"
         THEN [ok |-> FALSE, body |-> NoBody]
         ELSE [ok |-> TRUE, body |-> obj.body]

\* A delete that removes nothing
backend_delete_nothing(kind, fs, key) == fs

\* delete: unlink(missing_ok=True) / obj.delete()
backend_delete(kind, fs, key) == {f \in fs : f.key # key}

inventory_init(kind) == INVENTORY_KEY

\* An inventory job that the backend reports as failed
inventory_status_failed(kind, job) == "failure"

inventory_status(kind, job) == "success"

\* inventory_finish: one BackendFile(name, name, size) per object
inventory_finish(kind, fs) == {BackendFile(f.key, f.key, SizeOf(f.body)) : f \in fs}

-----------------------------------------------------------------------------
(* class InventoryCheck *)

\* for s in sources: pop data_key and meta_key; the keys left over
LocalKeys(srcs) == {s.data_key : s \in srcs} \cup {s.meta_key : s \in srcs}

MissingKeys(s, keys) ==
    (IF s.data_key \in keys THEN <<>> ELSE <<s.data_key>>) \o
    (IF s.meta_key \in keys THEN <<>> ELSE <<s.meta_key>>)

\* A check that records a Source only when both of its files are missing
broken_sources_both_missing(srcs, inventory) ==
    LET keys == {f.key : f \in inventory} IN
    {[name |-> s.name, missing |-> MissingKeys(s, keys)] :
        s \in {t \in srcs : Len(MissingKeys(t, keys)) = 2}}

broken_sources(srcs, inventory) ==
    LET keys == {f.key : f \in inventory} IN
    {[name |-> s.name, missing |-> MissingKeys(s, keys)] :
        s \in {t \in srcs : MissingKeys(t, keys) # <<>>}}

Unclaimed(srcs, inventory) == {f \in inventory : f.key \notin LocalKeys(srcs)}

\* A mapping that takes every entry, whatever its name ends in
map_by_name_any(inventory, suffix) == inventory

map_by_name_suffix(inventory, suffix) == {f \in inventory : EndsWith(f.name, suffix)}

importable(srcs, inventory) ==
    LET backend_data == map_by_name_suffix(Unclaimed(srcs, inventory), DATA_SUFFIX)
        backend_meta == map_by_name_suffix(Unclaimed(srcs, inventory), META_SUFFIX)
    IN {[meta |-> m, data |-> d] :
           <<m, d>> \in {p \in backend_meta \X backend_data : p[1].name = sibling(p[2].name)}}

\* A check that forgets the metadata files left without a data file
broken_backend_data_only(srcs, inventory) ==
    LET backend_data == map_by_name_suffix(Unclaimed(srcs, inventory), DATA_SUFFIX)
        backend_meta == map_by_name_suffix(Unclaimed(srcs, inventory), META_SUFFIX)
    IN {d \in backend_data : ~\E m \in backend_meta : m.name = sibling(d.name)}

\* A check that forgets the data files left without a metadata file
broken_backend_meta_only(srcs, inventory) ==
    LET backend_data == map_by_name_suffix(Unclaimed(srcs, inventory), DATA_SUFFIX)
        backend_meta == map_by_name_suffix(Unclaimed(srcs, inventory), META_SUFFIX)
    IN {m \in backend_meta : ~\E d \in backend_data : m.name = sibling(d.name)}

broken_backend(srcs, inventory) ==
    LET backend_data == map_by_name_suffix(Unclaimed(srcs, inventory), DATA_SUFFIX)
        backend_meta == map_by_name_suffix(Unclaimed(srcs, inventory), META_SUFFIX)
    IN {d \in backend_data : ~\E m \in backend_meta : m.name = sibling(d.name)} \cup
       {m \in backend_meta : ~\E d \in backend_data : m.name = sibling(d.name)}

InventoryCheck(srcs, inventory) ==
    [broken_sources |-> broken_sources(srcs, inventory),
     importable |-> importable(srcs, inventory),
     broken_backend |-> broken_backend(srcs, inventory)]

EmptyCheck == [broken_sources |-> {}, importable |-> {}, broken_backend |-> {}]

-----------------------------------------------------------------------------
(* The running command *)

NoNames == [data_name |-> None, meta_name |-> None]
NoPair == [meta |-> BackendFile(None, None, NoSize), data |-> BackendFile(None, None, NoSize)]

NoFirst == [ran |-> FALSE, dups |-> {}]

NoCur == [job |-> None, pair |-> NoPair]

Idle ==
    [cmd |-> "idle", pc |-> "idle",
     name |-> None,         \* the source name given
     src |-> NoSource,      \* source: the Source built or loaded
     data |-> NoBody,       \* the data archive staged or downloaded
     names |-> NoNames,     \* data_name, meta_name
     job |-> None,          \* job / inventory_job
     job0 |-> None,         \* history: the job key load_job returned at the start
     status |-> "none",     \* the last status polled
     istatus |-> "none",    \* the last status polled of the inventory job
     check |-> EmptyCheck,  \* check
     todo |-> {},           \* importable pairs not yet given a job
     pending |-> {},        \* jobs: set of [job, pair]
     cur |-> NoCur,         \* the job and pair in hand
     added |-> {},          \* log: "Added name = meta key"
     dups |-> {},           \* log: "Ignoring duplicate name = meta key"
     out |-> NoContent,     \* what get wrote to the destination
     listing |-> <<>>,      \* the names list printed, in order
     tmp |-> {},            \* temporary files of this command that exist
     first |-> NoFirst,     \* history: the refresh run that returned just before
     calls |-> {},          \* history: backend calls made, <<function, argument>>
     result |-> "none"]     \* "ok", or the error reported


BOX_NOT_FOUND == "Box not found."
BOX_EXISTS == "Box already exists."
INIT_FAILED == "Initialization failed."
SOURCE_EXISTS == "Source already exists in box."
SOURCE_NOT_FOUND == "Source not found in box."
OPERATION_FAILED == "Operation failed."
TRANSFER_FAILED == "Operation failed. (Transfer from backend failed.)"
INVENTORY_FAILED == "Operation failed. (Inventory retrieval failed.)"
METADATA_FAILED == "Operation failed. (Metadata retrieval failed)"

\* The command ends: its temporary files are as given, its result is reported.
Done(o, result) == [o EXCEPT !.pc = "done", !.result = result]

Call(o, fn, arg) == [o EXCEPT !.calls = @ \cup {<<fn, arg>>}]

Init ==
    /\ config = "absent"
    /\ sources = {}
    /\ jobs = {}
    /\ files = {}
    /\ op = Idle
    /\ uuid = 0
    /\ stored = [n \in Names |-> NoContent]

-----------------------------------------------------------------------------
(* cli.py init, init_folder / init_s3, Box.init *)

InitBox ==
    /\ op.pc = "idle"
    /\ \E kind \in Backends, probe \in BOOLEAN :
         IF config # "absent"
         THEN /\ op' = Done([Idle EXCEPT !.cmd = "init"], BOX_EXISTS)
              /\ UNCHANGED config
         ELSE IF probe
         THEN \* backend.box_init() returned: the configuration is written
              /\ config' = kind
              /\ op' = Done([Idle EXCEPT !.cmd = "init"], "ok")
         ELSE \* backend.box_init() raised: no configuration file
              /\ UNCHANGED config
              /\ op' = Done([Idle EXCEPT !.cmd = "init"], INIT_FAILED)
    /\ UNCHANGED <<sources, jobs, files, uuid, stored>>

-----------------------------------------------------------------------------
(* cli.py put, Box.store *)

\* A put that does not ask whether the name is taken
put_precondition_missing(srcs, name) == FALSE

\* put: box.contains(src_name) -> 'Source already exists in box.'
put_precondition(srcs, name) == contains(srcs, name)

PutBegin(input) ==
    /\ op.pc = "idle"
    /\ LET o == [Idle EXCEPT !.cmd = "put", !.name = input.name] IN
       IF config = "absent"
       THEN op' = Done(o, BOX_NOT_FOUND)
       ELSE IF put_precondition(sources, input.name)
       THEN op' = Done(o, SOURCE_EXISTS)
       ELSE \/ \* create_archive or _export_metadata raises; finally: rmtree
               op' = Done(o, OPERATION_FAILED)
            \/ \* the archives are staged in the temporary directory
               /\ uuid < MaxUuid
               /\ LET data == create_archive(input, uuid + 1) IN
                  op' = [o EXCEPT !.pc = "store_data",
                                  !.data = data,
                                  !.names = backend_names(uuid + 1),
                                  !.src = [Source(input.name) EXCEPT
                                              !.comment = input.comment,
                                              !.size = SizeOf(data)],
                                  !.tmp = {"store_dir"}]
    /\ uuid' = IF op'.pc = "store_data" THEN uuid + 1 ELSE uuid
    /\ UNCHANGED <<config, sources, jobs, files, stored>>

PutStoreData ==
    /\ op.pc = "store_data"
    /\ LET o == Call(op, "store_data", op.names.data_name) IN
       \/ /\ files' = store_data(config, files, op.names.data_name, op.data)
          /\ op' = [o EXCEPT !.pc = "store_meta",
                             !.src.data_key = op.names.data_name]
       \/ \* store_data raises; finally: rmtree
          /\ op' = Done([o EXCEPT !.tmp = {}], OPERATION_FAILED)
          /\ UNCHANGED files
    /\ UNCHANGED <<config, sources, jobs, uuid, stored>>

PutStoreMeta ==
    /\ op.pc = "store_meta"
    /\ LET o == Call(op, "store_meta", op.names.meta_name) IN
       \/ /\ files' = store_meta(config, files, op.names.meta_name,
                                 export_metadata(op.data))
          /\ op' = [o EXCEPT !.pc = "save_source",
                             !.src.meta_key = op.names.meta_name]
       \/ \* store_meta raises; finally: rmtree
          /\ op' = Done([o EXCEPT !.tmp = {}], OPERATION_FAILED)
          /\ UNCHANGED files
    /\ UNCHANGED <<config, sources, jobs, uuid, stored>>

PutSaveSource ==
    /\ op.pc = "save_source"
    /\ LET r == save_source(sources, op.src) IN
       /\ sources' = r.sources
       /\ stored' = IF r.ok THEN [stored EXCEPT ![op.name] = op.data.content]
                    ELSE stored
       /\ op' = Done([op EXCEPT !.tmp = {}],
                     IF r.ok THEN "ok" ELSE OPERATION_FAILED)
    /\ UNCHANGED <<config, jobs, files, uuid>>

-----------------------------------------------------------------------------
(* cli.py get, Box.retrieve *)

\* A retrieve that never looks for a persisted job
existing_job_ignored(jbs, name) == None

\* "Get existing retrieval job or start a new one": job = self._db.load_job(name)
existing_job(jbs, name) == load_job(jbs, name)

\* A failed transfer whose job row is kept
clear_failed_job_kept(jbs, name) == jbs

\* if status == JobStatus.failure: self._db.delete_job(name)
clear_failed_job(jbs, name) == delete_job(jbs, name)

\* data_path = backend.retrieve_finish(job); self._db.delete_job(name)
clear_finished_job(jbs, name) == delete_job(jbs, name)

GetBegin(name) ==
    /\ op.pc = "idle"
    /\ LET o == [Idle EXCEPT !.cmd = "get", !.name = name] IN
       IF config = "absent"
       THEN op' = Done(o, BOX_NOT_FOUND)
       ELSE IF ~contains(sources, name)
       THEN op' = Done(o, SOURCE_NOT_FOUND)
       ELSE LET job == existing_job(jobs, name) IN
            op' = [o EXCEPT !.src = load_source(sources, name),
                            !.job = job,
                            !.job0 = load_job(jobs, name),
                            !.pc = IF job = None THEN "retrieve_init"
                                   ELSE "retrieve_status"]
    /\ UNCHANGED <<config, sources, jobs, files, uuid, stored>>

GetRetrieveInit ==
    /\ op.pc = "retrieve_init"
    /\ LET o == Call(op, "retrieve_init", op.src.data_key)
           r == retrieve_init(config, files, op.src.data_key)
       IN \/ /\ r.ok
             /\ files' = r.files
             /\ op' = [o EXCEPT !.job = r.job, !.pc = "save_job"]
          \/ \* retrieve_init raises
             /\ op' = Done(o, OPERATION_FAILED)
             /\ UNCHANGED files
    /\ UNCHANGED <<config, sources, jobs, uuid, stored>>

GetSaveJob ==
    /\ op.pc = "save_job"
    /\ LET r == save_job(jobs, op.name, op.job) IN
       /\ jobs' = r.jobs
       /\ op' = IF r.ok THEN [op EXCEPT !.pc = "retrieve_status"]
                ELSE Done(op, OPERATION_FAILED)
    /\ UNCHANGED <<config, sources, files, uuid, stored>>

\* A wait that takes every status as a job still running
still_running_always(status) == TRUE

\* A wait that takes every status as the end of the job
still_running_never(status) == FALSE

\* while status == JobStatus.running
still_running(status) == status = "running"

\* status = backend.retrieve_status(job), first and in the loop; a status
\* that is neither running nor failure goes on to retrieve_finish
GetRetrieveStatus ==
    /\ op.pc = "retrieve_status"
    /\ LET o == Call(op, "retrieve_status", op.job) IN
       \E status \in {retrieve_status(config, files, op.job), "error"} :
          IF status = "error"
          THEN \* retrieve_status raises
               /\ op' = Done(o, OPERATION_FAILED)
               /\ UNCHANGED jobs
          ELSE IF still_running(status)
          THEN /\ op' = [o EXCEPT !.status = status, !.pc = "sleep"]
               /\ UNCHANGED jobs
          ELSE IF status = "failure"
          THEN /\ jobs' = clear_failed_job(jobs, op.name)
               /\ op' = Done([o EXCEPT !.status = status], TRANSFER_FAILED)
          ELSE /\ op' = [o EXCEPT !.status = status, !.pc = "retrieve_finish"]
               /\ UNCHANGED jobs
    /\ UNCHANGED <<config, sources, files, uuid, stored>>

\* time.sleep(60)
GetSleep ==
    /\ op.pc = "sleep"
    /\ op' = [op EXCEPT !.pc = "retrieve_status"]
    /\ UNCHANGED <<config, sources, jobs, files, uuid, stored>>

\* data_path = backend.retrieve_finish(job); self._db.delete_job(name)
GetRetrieveFinish ==
    /\ op.pc = "retrieve_finish"
    /\ LET o == Call(op, "retrieve_finish", op.job)
           r == retrieve_finish(config, files, op.job)
       IN \/ /\ r.ok
             /\ jobs' = clear_finished_job(jobs, op.name)
             /\ op' = [o EXCEPT !.data = r.body, !.tmp = {"data_path"},
                                !.pc = "extract_archive"]
          \/ \* retrieve_finish raises: data_path is still None; the backend
             \* raises before or after its File.mktemp()
             /\ \E left \in {{}, {"tmp_path"}} :
                   op' = Done([o EXCEPT !.tmp = left], OPERATION_FAILED)
             /\ UNCHANGED jobs
    /\ UNCHANGED <<config, sources, files, uuid, stored>>

\* A finally clause that leaves the file
unlink_data_path_skipped(tmp) == tmp

\* finally: if data_path: data_path.unlink(missing_ok=True)
unlink_data_path(tmp) == tmp \ {"data_path"}

\* extract_archive(...), then the finally clause
GetExtract ==
    /\ op.pc = "extract_archive"
    /\ \/ op' = Done([op EXCEPT !.out = extract_archive(op.data),
                                !.tmp = unlink_data_path(@)], "ok")
       \/ \* extract_archive raises
          op' = Done([op EXCEPT !.tmp = unlink_data_path(@)], OPERATION_FAILED)
    /\ UNCHANGED <<config, sources, jobs, files, uuid, stored>>

\* S3 finishes a restore that was requested
S3RestoreComplete ==
    /\ \E f \in files :
         /\ f.restore = "running"
         /\ files' = (files \ {f}) \cup {[f EXCEPT !.restore = "complete"]}
    /\ UNCHANGED <<config, sources, jobs, uuid, op, stored>>

-----------------------------------------------------------------------------
(* cli.py delete, Box.delete *)

DeleteBegin(name) ==
    /\ op.pc = "idle"
    /\ LET o == [Idle EXCEPT !.cmd = "delete", !.name = name] IN
       IF config = "absent"
       THEN op' = Done(o, BOX_NOT_FOUND)
       ELSE IF ~contains(sources, name)
       THEN op' = Done(o, SOURCE_NOT_FOUND)
       ELSE op' = [o EXCEPT !.src = load_source(sources, name),
                            !.pc = "delete_data"]
    /\ UNCHANGED <<config, sources, jobs, files, uuid, stored>>

\* A delete that drops the catalog row when a backend delete has raised
delete_raised_row_dropped(srcs, name) == delete_source(srcs, name)

\* backend.delete raises: the exception leaves Box.delete before delete_source
delete_raised(srcs, name) == srcs

DeleteData ==
    /\ op.pc = "delete_data"
    /\ LET o == Call(op, "delete", op.src.data_key) IN
       \/ /\ files' = backend_delete(config, files, op.src.data_key)
          /\ op' = [o EXCEPT !.pc = "delete_meta"]
          /\ UNCHANGED sources
       \/ \* backend.delete raises
          /\ op' = Done(o, OPERATION_FAILED)
          /\ sources' = delete_raised(sources, op.name)
          /\ UNCHANGED files
    /\ UNCHANGED <<config, jobs, uuid, stored>>

DeleteMeta ==
    /\ op.pc = "delete_meta"
    /\ LET o == Call(op, "delete", op.src.meta_key) IN
       \/ /\ files' = backend_delete(config, files, op.src.meta_key)
          /\ op' = [o EXCEPT !.pc = "delete_source"]
          /\ UNCHANGED sources
       \/ \* backend.delete raises
          /\ op' = Done(o, OPERATION_FAILED)
          /\ sources' = delete_raised(sources, op.name)
          /\ UNCHANGED files
    /\ UNCHANGED <<config, jobs, uuid, stored>>

DeleteSource ==
    /\ op.pc = "delete_source"
    /\ sources' = delete_source(sources, op.name)
    /\ stored' = [stored EXCEPT ![op.name] = NoContent]
    /\ op' = Done(op, "ok")
    /\ UNCHANGED <<config, jobs, files, uuid>>

-----------------------------------------------------------------------------
(* cli.py refresh, Box.refresh *)

\* refresh is started from the prompt, or again as soon as a run has returned
\* without error (first then remembers what that run reported).
RefreshBegin ==
    /\ \/ op.pc = "idle"
       \/ op.pc = "done" /\ op.cmd = "refresh" /\ op.result = "ok"
    /\ LET o == [Idle EXCEPT !.cmd = "refresh",
                             !.first = IF op.pc = "done"
                                       THEN [ran |-> TRUE, dups |-> op.dups]
                                       ELSE NoFirst] IN
       IF config = "absent"
       THEN op' = Done(o, BOX_NOT_FOUND)
       ELSE LET job == load_job(jobs, INVENTORY_JOB) IN
            op' = [o EXCEPT !.job = job, !.job0 = job,
                            !.pc = IF job = None THEN "inventory_init"
                                   ELSE "inventory_status"]
    /\ UNCHANGED <<config, sources, jobs, files, uuid, stored>>

RefreshInventoryInit ==
    /\ op.pc = "inventory_init"
    /\ LET o == Call(op, "inventory_init", None) IN
       \/ op' = [o EXCEPT !.job = inventory_init(config), !.pc = "inventory_save"]
       \/ \* inventory_init raises
          op' = Done(o, OPERATION_FAILED)
    /\ UNCHANGED <<config, sources, jobs, files, uuid, stored>>

RefreshSaveJob ==
    /\ op.pc = "inventory_save"
    /\ LET r == save_job(jobs, INVENTORY_JOB, op.job) IN
       /\ jobs' = r.jobs
       /\ op' = IF r.ok THEN [op EXCEPT !.pc = "inventory_status"]
                ELSE Done(op, OPERATION_FAILED)
    /\ UNCHANGED <<config, sources, files, uuid, stored>>

\* The inventory wait, then sources = self.sources(),
\* inventory = backend.inventory_finish(inventory_job), check = InventoryCheck(...)
RefreshInventory ==
    /\ op.pc = "inventory_status"
    /\ LET o == Call(op, "inventory_status", op.job) IN
       \E status \in {inventory_status(config, op.job), "error"} :
          CASE status = "running" ->
                 \* time.sleep(60), poll again
                 /\ op' = [o EXCEPT !.istatus = status]
                 /\ UNCHANGED jobs
            [] status = "failure" ->
                 /\ jobs' = delete_job(jobs, INVENTORY_JOB)
                 /\ op' = Done([o EXCEPT !.istatus = status], INVENTORY_FAILED)
            [] status = "success" ->
                 /\ UNCHANGED jobs
                 /\ \/ LET check == InventoryCheck(sources, inventory_finish(config, files)) IN
                       op' = [Call(o, "inventory_finish", op.job) EXCEPT
                                 !.istatus = status,
                                 !.check = check,
                                 !.todo = check.importable,
                                 !.pc = "import"]
                    \/ \* inventory_finish raises
                       op' = Done([Call(o, "inventory_finish", op.job) EXCEPT
                                      !.istatus = status], OPERATION_FAILED)
            [] OTHER ->
                 \* inventory_status raises
                 /\ op' = Done(o, OPERATION_FAILED)
                 /\ UNCHANGED jobs
    /\ UNCHANGED <<config, sources, files, uuid, stored>>

\* for meta, data in check.importable.items(): the job found, or retrieve_init
RefreshRetrieveInit ==
    /\ op.pc = "import"
    /\ \E pair \in op.todo :
         LET job == load_job(jobs, pair.meta.key)
             r == retrieve_init(config, files, pair.meta.key)
             o == Call(op, "retrieve_init", pair.meta.key)
         IN IF job # None
            THEN /\ op' = [op EXCEPT !.todo = @ \ {pair},
                                     !.pending = @ \cup {[job |-> job, pair |-> pair]}]
                 /\ UNCHANGED files
            ELSE \/ /\ r.ok
                    /\ files' = r.files
                    /\ op' = [o EXCEPT !.cur = [job |-> r.job, pair |-> pair],
                                       !.pc = "import_save"]
                 \/ \* retrieve_init raises
                    /\ op' = Done(o, OPERATION_FAILED)
                    /\ UNCHANGED files
    /\ UNCHANGED <<config, sources, jobs, uuid, stored>>

\* self._db.save_job(meta.key, job); jobs[job] = meta
RefreshSaveImportJob ==
    /\ op.pc = "import_save"
    /\ LET r == save_job(jobs, op.cur.pair.meta.key, op.cur.job) IN
       /\ jobs' = r.jobs
       /\ op' = IF r.ok
                THEN [op EXCEPT !.todo = @ \ {op.cur.pair},
                                !.pending = @ \cup {op.cur},
                                !.cur = NoCur,
                                !.pc = "import"]
                ELSE Done(op, OPERATION_FAILED)
    /\ UNCHANGED <<config, sources, files, uuid, stored>>

\* while jobs: status = backend.retrieve_status(job)
RefreshRetrieveStatus ==
    /\ op.pc = "import"
    /\ op.todo = {}
    /\ \E p \in op.pending :
         LET o == Call(op, "retrieve_status", p.job) IN
         \E status \in {retrieve_status(config, files, p.job), "error"} :
            CASE status = "running" ->
                   \* stays in jobs; polled again after time.sleep(60)
                   /\ op' = [o EXCEPT !.status = status]
                   /\ UNCHANGED jobs
              [] status = "failure" ->
                   /\ jobs' = delete_job(jobs, p.pair.meta.key)
                   /\ op' = Done([o EXCEPT !.status = status], METADATA_FAILED)
              [] status = "success" ->
                   /\ jobs' = delete_job(jobs, p.pair.meta.key)
                   /\ op' = [o EXCEPT !.status = status, !.cur = p,
                                      !.pc = "import_finish"]
              [] OTHER ->
                   \* retrieve_status raises
                   /\ op' = Done(o, OPERATION_FAILED)
                   /\ UNCHANGED jobs
    /\ UNCHANGED <<config, sources, files, uuid, stored>>

\* name = archive.metadata.archive_name, without a trailing '.zip'
archive_name(body) ==
    IF EndsWith(body.archive_name, ZIP_SUFFIX)
    THEN DropLast(body.archive_name, Len(ZIP_SUFFIX))
    ELSE body.archive_name

\* An import that takes the two keys the wrong way round
imported_source_swapped(body, pair) ==
    [Source(archive_name(body)) EXCEPT
        !.comment = body.comment,
        !.size = pair.data.size,
        !.data_key = pair.meta.key,
        !.meta_key = pair.data.key]

\* The Source built from the metadata archive and the importable pair
imported_source(body, pair) ==
    [Source(archive_name(body)) EXCEPT
        !.comment = body.comment,
        !.size = pair.data.size,
        !.data_key = pair.data.key,
        !.meta_key = pair.meta.key]

\* An import that logs "Added" without saving the Source
import_source_unsaved(srcs, src) ==
    [saved |-> [ok |-> TRUE, sources |-> srcs], duplicate |-> contains(srcs, src.name)]

\* An import that replaces a Source of the same name
import_source_overwrite(srcs, src) ==
    [saved |-> [ok |-> TRUE, sources |-> delete_source(srcs, src.name) \cup {src}],
     duplicate |-> contains(srcs, src.name)]

\* An import that skips a taken name without logging it as a duplicate
import_source_unreported(srcs, src) ==
    IF ~contains(srcs, src.name)
    THEN [saved |-> save_source(srcs, src), duplicate |-> FALSE]
    ELSE [saved |-> [ok |-> TRUE, sources |-> srcs], duplicate |-> FALSE]

\* if not self.contains(src.name): self._db.save_source(src) else duplicate
import_source(srcs, src) ==
    IF ~contains(srcs, src.name)
    THEN [saved |-> save_source(srcs, src), duplicate |-> FALSE]
    ELSE [saved |-> [ok |-> TRUE, sources |-> srcs], duplicate |-> TRUE]

\* meta_path = backend.retrieve_finish(job) ... finished.append(job)
RefreshImport ==
    /\ op.pc = "import_finish"
    /\ LET o == Call(op, "retrieve_finish", op.cur.job)
           r == retrieve_finish(config, files, op.cur.job)
           src == imported_source(r.body, op.cur.pair)
           i == import_source(sources, src)
           entry == [name |-> src.name, key |-> src.meta_key]
       IN \/ /\ r.ok
             /\ i.saved.ok
             /\ sources' = i.saved.sources
             /\ op' = [o EXCEPT !.pending = @ \ {op.cur},
                                !.cur = NoCur,
                                !.added = IF i.duplicate THEN @ ELSE @ \cup {entry},
                                !.dups = IF i.duplicate THEN @ \cup {entry} ELSE @,
                                !.pc = "import"]
          \/ \* save_source raises, after meta_path.unlink()
             /\ r.ok
             /\ ~i.saved.ok
             /\ op' = Done(o, OPERATION_FAILED)
             /\ UNCHANGED sources
          \/ \* IcepackReader raises: meta_path is not unlinked
             /\ r.ok
             /\ op' = Done([o EXCEPT !.tmp = {"meta_path"}], OPERATION_FAILED)
             /\ UNCHANGED sources
          \/ \* retrieve_finish raises
             /\ op' = Done(o, OPERATION_FAILED)
             /\ UNCHANGED sources
    /\ UNCHANGED <<config, jobs, files, uuid, stored>>

\* self._db.delete_job(INVENTORY_JOB), then the two reports
RefreshFinish ==
    /\ op.pc = "import"
    /\ op.todo = {}
    /\ op.pending = {}
    /\ jobs' = delete_job(jobs, INVENTORY_JOB)
    /\ op' = Done(op, "ok")
    /\ UNCHANGED <<config, sources, files, uuid, stored>>

-----------------------------------------------------------------------------
(* cli.py list, Box.sources *)

\* for source in box.sources(): click.echo(source.name ...)
List ==
    /\ op.pc = "idle"
    /\ LET o == [Idle EXCEPT !.cmd = "list"] IN
       IF config = "absent"
       THEN op' = Done(o, BOX_NOT_FOUND)
       ELSE \E q \in load_sources(sources) :
               op' = Done([o EXCEPT !.listing = [i \in DOMAIN q |-> q[i].name]], "ok")
    /\ UNCHANGED <<config, sources, jobs, files, uuid, stored>>

-----------------------------------------------------------------------------
(* The command returns, or the process is killed *)

Exit ==
    /\ op.pc = "done"
    /\ op' = Idle
    /\ UNCHANGED <<config, sources, jobs, files, uuid, stored>>

Kill ==
    /\ op.pc \notin {"idle", "done"}
    /\ op' = Idle
    /\ UNCHANGED <<config, sources, jobs, files, uuid, stored>>

Next ==
    \/ InitBox
    \/ \E input \in Inputs : PutBegin(input)
    \/ PutStoreData
    \/ PutStoreMeta
    \/ PutSaveSource
    \/ \E name \in Names : GetBegin(name)
    \/ GetRetrieveInit
    \/ GetSaveJob
    \/ GetRetrieveStatus
    \/ GetSleep
    \/ GetRetrieveFinish
    \/ GetExtract
    \/ S3RestoreComplete
    \/ \E name \in Names : DeleteBegin(name)
    \/ DeleteData
    \/ DeleteMeta
    \/ DeleteSource
    \/ RefreshBegin
    \/ RefreshInventoryInit
    \/ RefreshSaveJob
    \/ RefreshInventory
    \/ RefreshRetrieveInit
    \/ RefreshSaveImportJob
    \/ RefreshRetrieveStatus
    \/ RefreshImport
    \/ RefreshFinish
    \/ List
    \/ Exit
    \/ Kill

Spec == Init /\ [][Next]_vars

\* The box used with init, put, get, delete and list only
NextStoreDelete ==
    \/ InitBox
    \/ \E input \in Inputs : PutBegin(input)
    \/ PutStoreData
    \/ PutStoreMeta
    \/ PutSaveSource
    \/ \E name \in Names : GetBegin(name)
    \/ GetRetrieveInit
    \/ GetSaveJob
    \/ GetRetrieveStatus
    \/ GetSleep
    \/ GetRetrieveFinish
    \/ GetExtract
    \/ S3RestoreComplete
    \/ \E name \in Names : DeleteBegin(name)
    \/ DeleteData
    \/ DeleteMeta
    \/ DeleteSource
    \/ List
    \/ Exit
    \/ Kill

SpecStoreDelete == Init /\ [][NextStoreDelete]_vars

-----------------------------------------------------------------------------
(* The catalog on its own: the SQLite methods called one after another, as *)
(* tests/test_box.py calls them.  op records the call and what it returned. *)

CatalogNames == Names \cup {<<"B">>}
JobNames == Names \cup {INVENTORY_JOB}
JobKeys == {<<"f", "o", "o">>, <<"b", "a", "r">>}

CatalogSources ==
    {[Source(n) EXCEPT !.comment = c, !.size = 5,
                       !.data_key = k \o DATA_SUFFIX, !.meta_key = k \o META_SUFFIX] :
        n \in CatalogNames,
        <<c, k>> \in {<<None, <<"1">> >>, << <<"n">>, <<"2">> >>}}

Returned(cmd, name, key, result) ==
    [Idle EXCEPT !.cmd = cmd, !.pc = "done", !.name = name, !.job = key,
                 !.result = result]

CatSaveJob(name, key) ==
    /\ LET r == save_job(jobs, name, key) IN
       /\ jobs' = r.jobs
       /\ op' = Returned("save_job", name, key, IF r.ok THEN "ok" ELSE "IntegrityError")
    /\ UNCHANGED <<config, sources, files, uuid, stored>>

CatLoadJob(name) ==
    /\ op' = Returned("load_job", name, load_job(jobs, name), "ok")
    /\ UNCHANGED <<config, sources, jobs, files, uuid, stored>>

CatDeleteJob(name) ==
    /\ jobs' = delete_job(jobs, name)
    /\ op' = Returned("delete_job", name, None, "ok")
    /\ UNCHANGED <<config, sources, files, uuid, stored>>

CatSaveSource(src) ==
    /\ LET r == save_source(sources, src) IN
       /\ sources' = r.sources
       /\ op' = [Returned("save_source", src.name, None,
                          IF r.ok THEN "ok" ELSE "IntegrityError") EXCEPT !.src = src]
    /\ UNCHANGED <<config, jobs, files, uuid, stored>>

CatLoadSource(name) ==
    /\ op' = [Returned("load_source", name, None, "ok") EXCEPT
                 !.src = load_source(sources, name)]
    /\ UNCHANGED <<config, sources, jobs, files, uuid, stored>>

CatDeleteSource(name) ==
    /\ sources' = delete_source(sources, name)
    /\ op' = Returned("delete_source", name, None, "ok")
    /\ UNCHANGED <<config, jobs, files, uuid, stored>>

\* load_sources(): the rows as Sources, in the order of the statement
CatLoadSources ==
    /\ \E q \in load_sources(sources) :
         op' = [Returned("load_sources", None, None, "ok") EXCEPT
                  !.listing = [i \in DOMAIN q |-> q[i].name]]
    /\ UNCHANGED <<config, sources, jobs, files, uuid, stored>>

NextCatalog ==
    \/ \E name \in JobNames, key \in JobKeys : CatSaveJob(name, key)
    \/ \E name \in JobNames : CatLoadJob(name)
    \/ \E name \in JobNames : CatDeleteJob(name)
    \/ \E src \in CatalogSources : CatSaveSource(src)
    \/ \E name \in CatalogNames : CatLoadSource(name)
    \/ \E name \in CatalogNames : CatDeleteSource(name)
    \/ CatLoadSources

SpecCatalog == Init /\ [][NextCatalog]_vars

-----------------------------------------------------------------------------
(* Properties *)

Intact(s, fs) == Exists(fs, s.data_key) /\ Exists(fs, s.meta_key)

\* C1: when retrieve(name) starts while a Job for name is persisted, it makes
\* no retrieve_init call, and every retrieve_status / retrieve_finish call it
\* makes is given the persisted job key.
C1_ResumesPersistedJob ==
    (op.cmd = "get" /\ op.job0 # None) =>
        \A c \in op.calls :
            /\ c[1] # "retrieve_init"
            /\ c[1] \in {"retrieve_status", "retrieve_finish"} => c[2] = op.job0

\* A retrieve that found a persisted job, polled it and downloaded with it.
C1_Witness ==
    /\ op.cmd = "get"
    /\ op.job0 # None
    /\ op.pc = "done"
    /\ op.result = "ok"
    /\ <<"retrieve_status", op.job0>> \in op.calls
    /\ <<"retrieve_finish", op.job0>> \in op.calls

\* C2: a put of a name that is already in the catalog ends at once with the
\* duplicate-name error, having made no backend call and having left the
\* backend's objects and the catalog as they were.
C2_DuplicateStoreRejected ==
    [][(op.pc = "idle" /\ op'.cmd = "put" /\ contains(sources, op'.name)) =>
          /\ op'.pc = "done"
          /\ op'.result = SOURCE_EXISTS
          /\ op'.calls = {}
          /\ files' = files
          /\ sources' = sources
          /\ jobs' = jobs]_vars

\* A put of a name that a put stored before ended with the duplicate-name error.
C2_Witness ==
    /\ op.cmd = "put"
    /\ op.pc = "done"
    /\ op.result = SOURCE_EXISTS
    /\ stored[op.name] # NoContent
    /\ Intact(load_source(sources, op.name), files)

\* C3: a get of a name that was stored, when it ends without error, has
\* written to the destination the content that was stored under that name,
\* for a file as for a directory.
C3_RoundTrip ==
    (op.cmd = "get" /\ op.pc = "done" /\ op.result = "ok" /\ stored[op.name] # NoContent) =>
        op.out = stored[op.name]

\* A directory that was stored has been retrieved.
C3_Witness ==
    /\ op.cmd = "get"
    /\ op.pc = "done"
    /\ op.result = "ok"
    /\ stored[op.name] = DirContent(uuid)
    /\ op.out = DirContent(uuid)

\* C4: when delete(name) returns, name is not in the catalog and neither of
\* the Source's keys can be retrieved from the backend; a delete of a name
\* that is not in the catalog ends with the not-found error, makes no backend
\* call and changes nothing.
C4_DeleteThenNotFound ==
    [][/\ (op'.cmd = "delete" /\ op'.pc = "done" /\ op'.result = "ok") =>
            /\ ~contains(sources', op'.name)
            /\ ~retrieve_finish(config, files', op'.src.data_key).ok
            /\ ~retrieve_finish(config, files', op'.src.meta_key).ok
       /\ (op.pc = "idle" /\ op'.cmd = "delete" /\ config # "absent"
              /\ ~contains(sources, op'.name)) =>
            /\ op'.pc = "done"
            /\ op'.result = SOURCE_NOT_FOUND
            /\ op'.calls = {}
            /\ files' = files
            /\ sources' = sources
            /\ jobs' = jobs]_vars

\* A delete of a stored source has returned: both backend deletes were made.
C4_Witness ==
    /\ op.cmd = "delete"
    /\ op.pc = "done"
    /\ op.result = "ok"
    /\ <<"delete", op.src.data_key>> \in op.calls
    /\ <<"delete", op.src.meta_key>> \in op.calls
    /\ ~contains(sources, op.name)

\* C5 as stated: whenever no command is under way (also after one that failed
\* part-way), every Source in the catalog has its data archive and its
\* metadata archive in the backend.
C5_AsStated ==
    op.pc \in {"idle", "done"} => \A s \in sources : Intact(s, files)

\* C5: a Source in the catalog lacks an archive in the backend only from a
\* step of a delete of that Source on: no other step adds to the catalog a
\* Source without both archives, or takes an archive from a Source in it.
C5_OnlyDeleteBreaksSource ==
    [][\A s \in sources' :
          \/ Intact(s, files')
          \/ s \in sources /\ ~Intact(s, files)
          \/ op.cmd = "delete" /\ op.src = s]_vars

\* A delete removed the data archive and then failed: the Source is still in
\* the catalog.
C5_Witness ==
    /\ op.cmd = "delete"
    /\ op.pc = "done"
    /\ op.result = OPERATION_FAILED
    /\ contains(sources, op.name)
    /\ ~Exists(files, op.src.data_key)
    /\ Exists(files, op.src.meta_key)

\* C6: the catalog never holds two Jobs of one name; a save_job for a name
\* that has a Job fails, and load_job still returns the key stored before.
C6_OneJobPerName ==
    /\ [](\A j1 \in jobs, j2 \in jobs : j1.name = j2.name => j1 = j2)
    /\ [][(op'.cmd = "save_job" /\ load_job(jobs, op'.name) # None) =>
             /\ op'.result = "IntegrityError"
             /\ load_job(jobs', op'.name) = load_job(jobs, op'.name)]_vars

\* A save_job with another key for a name that has a Job was refused.
C6_Witness ==
    /\ op.cmd = "save_job"
    /\ op.result = "IntegrityError"
    /\ load_job(jobs, op.name) # None
    /\ load_job(jobs, op.name) # op.job

\* C7 as stated: once retrieve(name) has ended after the backend reported
\* Success or Failure, no Job for name remains; once refresh has returned or
\* raised after the inventory reported Success or Failure, no inventory Job
\* remains; after Failure an error is reported.
C7_AsStated ==
    /\ (op.cmd = "get" /\ op.pc = "done" /\ op.status \in {"success", "failure"}) =>
          load_job(jobs, op.name) = None
    /\ (op.cmd = "refresh" /\ op.pc = "done" /\ op.istatus \in {"success", "failure"}) =>
          load_job(jobs, INVENTORY_JOB) = None
    /\ (op.cmd = "get" /\ op.pc = "done" /\ op.status = "failure") =>
          op.result = TRANSFER_FAILED
    /\ (op.cmd = "refresh" /\ op.pc = "done" /\ op.istatus = "failure") =>
          op.result = INVENTORY_FAILED

\* C7: once retrieve(name) has ended after status Failure, or after status
\* Success and a retrieve_finish that returned, no Job for name remains; once
\* refresh has ended on inventory status Failure, or has returned without
\* error, no inventory Job remains; after Failure an error is reported.
C7_JobClearedAtEnd ==
    /\ (op.cmd = "get" /\ op.pc = "done" /\ op.status = "failure") =>
          load_job(jobs, op.name) = None /\ op.result = TRANSFER_FAILED
    /\ (op.cmd = "get" /\ op.pc = "done" /\ op.status = "success"
           /\ op.data # NoBody) =>
          load_job(jobs, op.name) = None
    /\ (op.cmd = "refresh" /\ op.pc = "done" /\ op.istatus = "failure") =>
          load_job(jobs, INVENTORY_JOB) = None /\ op.result = INVENTORY_FAILED
    /\ (op.cmd = "refresh" /\ op.pc = "done" /\ op.result = "ok") =>
          load_job(jobs, INVENTORY_JOB) = None

\* A retrieve whose persisted job the backend reported as failed has ended.
C7_Witness ==
    /\ op.cmd = "get"
    /\ op.pc = "done"
    /\ op.status = "failure"
    /\ <<"retrieve_init", op.src.data_key>> \in op.calls
    /\ load_job(jobs, op.name) = None

\* C8 as stated: a refresh started when a refresh has just returned finds no
\* importable pair and reports no duplicate.
C8_AsStated ==
    op.first.ran => op.check.importable = {} /\ op.dups = {}

\* C8: a refresh started when a refresh has just returned adds no Source; the
\* pairs it finds importable, and the duplicates it reports, are those the
\* first run reported as duplicates.
C8_SecondRunOnlyDuplicates ==
    op.first.ran =>
        /\ op.added = {}
        /\ \A p \in op.check.importable : \E d \in op.first.dups : d.key = p.meta.key
        /\ op.dups \subseteq op.first.dups

\* The second of two runs has returned, having reported a duplicate again.
C8_Witness ==
    /\ op.first.ran
    /\ op.cmd = "refresh"
    /\ op.pc = "done"
    /\ op.result = "ok"
    /\ op.dups # {}

\* C9: no step of refresh removes or rewrites a backend object, removes or
\* alters a Source of the catalog, or calls the backend's delete or store.
C9_RefreshOnlyAdds ==
    [][op'.cmd = "refresh" =>
          /\ \A f \in files : \E g \in files' : g.key = f.key /\ g.body = f.body
          /\ sources \subseteq sources'
          /\ \A c \in op'.calls : c[1] \notin {"delete", "store_data", "store_meta"}]_vars

\* A refresh has returned that reported a Source with a missing archive and
\* a dangling backend file: both are still there.
C9_Witness ==
    /\ op.cmd = "refresh"
    /\ op.pc = "done"
    /\ op.result = "ok"
    /\ op.check.broken_sources # {}
    /\ op.check.broken_backend # {}
    /\ \E s \in sources : ~Intact(s, files)
    /\ \A f \in op.check.broken_backend : Exists(files, f.key)

\* C10: when refresh has decoded the metadata of an importable pair and the
\* name is in the catalog, the catalog stays as it is and the pair is logged
\* as a duplicate, not as added.
C10_DuplicateImportIgnored ==
    [][(op.pc = "import_finish" /\ op'.pc = "import") =>
          LET name == archive_name(Object(files, op.cur.pair.meta.key).body)
              entry == [name |-> name, key |-> op.cur.pair.meta.key]
          IN contains(sources, name) =>
                /\ sources' = sources
                /\ entry \in op'.dups
                /\ op'.added = op.added]_vars

\* One run added a Source from one pair and ignored a second pair of that name.
C10_Witness ==
    /\ op.cmd = "refresh"
    /\ \E d \in op.dups : \E a \in op.added :
          /\ a.name = d.name
          /\ a.key # d.key
          /\ load_source(sources, d.name).meta_key = a.key

\* A step of refresh that does not end it with an error
RefreshAdvance ==
    /\ \/ RefreshInventoryInit
       \/ RefreshSaveJob
       \/ RefreshInventory
       \/ RefreshRetrieveInit
       \/ RefreshSaveImportJob
       \/ RefreshRetrieveStatus
       \/ RefreshImport
       \/ RefreshFinish
    /\ op'.pc # "done" \/ op'.result = "ok"

C12_ImportAddsSource ==
    /\ [][(op.pc = "import_finish" /\ op'.pc = "import") =>
             LET pair == op.cur.pair
                 body == Object(files, pair.meta.key).body
                 name == archive_name(body)
             IN ~contains(sources, name) =>
                   /\ sources' = sources \cup
                         {[name |-> name, comment |-> body.comment,
                           size |-> pair.data.size,
                           data_key |-> pair.data.key,
                           meta_key |-> pair.meta.key]}
                   /\ [name |-> name, key |-> pair.meta.key] \in op'.added]_vars
    /\ []((op.cmd = "refresh" /\ op.pc = "done" /\ op.result = "ok") =>
             \A p \in op.check.importable :
                 \E e \in op.added \cup op.dups :
                     e.key = p.meta.key /\ contains(sources, e.name))

\* A refresh has returned after adding the Source of a pair nothing referred
\* to: the name is listed again, with the keys and the size of the pair.
C12_Witness ==
    /\ op.cmd = "refresh"
    /\ op.pc = "done"
    /\ op.result = "ok"
    /\ \E p \in op.check.importable : \E a \in op.added :
          /\ a.key = p.meta.key
          /\ load_source(sources, a.name).data_key = p.data.key
          /\ load_source(sources, a.name).meta_key = p.meta.key
          /\ load_source(sources, a.name).size = p.data.size
          /\ stored[a.name] = NoContent

-----------------------------------------------------------------------------
(* InventoryCheck on its own: any catalog of the Sources below against any  *)
(* listing of the objects below.                                            *)

CheckKeys ==
    {<<"1">> \o DATA_SUFFIX, <<"1">> \o META_SUFFIX,
     <<"2">> \o DATA_SUFFIX, <<"2">> \o META_SUFFIX, <<"x">>,
     <<"1", ".", "d", "a", "t">>}

CheckObjects ==
    {[key |-> k, body |-> NoBody, class |-> "STANDARD", restore |-> "none"] :
        k \in CheckKeys}

CheckSources ==
    {[Source(<<"a">>) EXCEPT !.size = 3, !.data_key = <<"1">> \o DATA_SUFFIX,
                             !.meta_key = <<"1">> \o META_SUFFIX],
     [Source(<<"b">>) EXCEPT !.size = 3, !.data_key = <<"2">> \o DATA_SUFFIX,
                             !.meta_key = <<"2">> \o META_SUFFIX]}

InitCheck ==
    /\ config = "folder"
    /\ sources \in SUBSET CheckSources
    /\ jobs = {}
    /\ files \in SUBSET CheckObjects
    /\ op = Idle
    /\ uuid = 0
    /\ stored = [n \in Names |-> NoContent]

\* check = InventoryCheck(self.sources(), backend.inventory_finish(job))
CheckInventory ==
    /\ op.pc = "idle"
    /\ op' = [Idle EXCEPT !.cmd = "check", !.pc = "done",
                          !.check = InventoryCheck(sources, inventory_finish(config, files))]
    /\ UNCHANGED <<config, sources, jobs, files, uuid, stored>>

NextCheck == CheckInventory

SpecCheck == InitCheck /\ [][NextCheck]_vars

\* The inventory entries no Source of the catalog refers to
UnclaimedEntries ==
    {f \in inventory_finish(config, files) :
        \A s \in sources : f.key # s.data_key /\ f.key # s.meta_key}

MetaNameOf(d) == SubSeq(d.name, 1, Len(d.name) - Len(DATA_SUFFIX)) \o META_SUFFIX

\* C13: of the inventory entries no Source refers to, a .data entry is in an
\* importable pair exactly when the entry named with .meta in place of .data
\* is among them too, and is reported dangling otherwise; a .meta entry is
\* the metadata of an importable pair or is reported dangling; no entry is
\* both, and nothing else is in either set.
C13_Classification ==
    op.cmd = "check" =>
        LET U == UnclaimedEntries
            D == {f \in U : EndsWith(f.name, DATA_SUFFIX)}
            M == {f \in U : EndsWith(f.name, META_SUFFIX)}
            paired_data == {p.data : p \in op.check.importable}
            paired_meta == {p.meta : p \in op.check.importable}
            dangling == op.check.broken_backend
        IN /\ \A d \in D :
                 /\ d \in paired_data <=> \E m \in M : m.name = MetaNameOf(d)
                 /\ d \in dangling <=> d \notin paired_data
           /\ \A m \in M :
                 /\ m \in paired_meta <=> \E d \in D : m.name = MetaNameOf(d)
                 /\ m \in dangling <=> m \notin paired_meta
           /\ \A p \in op.check.importable :
                 p.data \in D /\ p.meta \in M /\ p.meta.name = MetaNameOf(p.data)
           /\ dangling \subseteq D \cup M
           /\ Cardinality(op.check.importable) = Cardinality(paired_data)

\* One catalogued pair and one lone .data file: one dangling file, no pair.
C13_Witness ==
    /\ op.cmd = "check"
    /\ Cardinality(sources) = 1
    /\ \A s \in sources : Intact(s, files)
    /\ Cardinality(files) = 3
    /\ \E f \in files : f.key = <<"2">> \o DATA_SUFFIX
    /\ Cardinality(op.check.broken_backend) = 1
    /\ op.check.importable = {}

\* The names of a listing, as a set
Listed(l) == {l[i] : i \in DOMAIN l}

\* C14: with init, put, get, delete and list only, the names a list prints
\* are exactly the names a put has stored and no delete has removed since,
\* each once.
C14_ListIsStoredNotDeleted ==
    (op.cmd = "list" /\ op.pc = "done" /\ op.result = "ok") =>
        /\ Listed(op.listing) = {n \in Names : stored[n] # NoContent}
        /\ \A i \in DOMAIN op.listing, j \in DOMAIN op.listing :
              i # j => op.listing[i] # op.listing[j]

\* Two names were stored, one was deleted again: the list is the other one.
C14_Witness ==
    /\ op.cmd = "list"
    /\ op.pc = "done"
    /\ op.listing = << <<"a">> >>
    /\ uuid = 2
    /\ files = {f \in files : f.key \in {load_source(sources, <<"a">>).data_key,
                                          load_source(sources, <<"a">>).meta_key}}
    /\ Cardinality(files) = 2

\* A name with its upper case letters turned into lower case
Lowered(x) ==
    [i \in DOMAIN x |-> CASE x[i] = "A" -> "a" [] x[i] = "B" -> "b" [] OTHER -> x[i]]

\* C15: the names load_sources returns are in ascending order under
\* case-insensitive comparison, and they are the names of the table, each
\* once.
C15_ListOrder ==
    op.cmd \in {"list", "load_sources"} =>
        /\ \A i \in DOMAIN op.listing, j \in DOMAIN op.listing :
              i < j => ~less_binary(Lowered(op.listing[j]), Lowered(op.listing[i]))
        /\ op.result = "ok" =>
              /\ Listed(op.listing) = {s.name : s \in sources}
              /\ Len(op.listing) = Cardinality(sources)

\* 'a' is listed before 'B', which a comparison of bytes would put first.
C15_Witness ==
    /\ op.cmd = "load_sources"
    /\ Len(op.listing) = 3
    /\ op.listing[1] = <<"a">>
    /\ op.listing[2] = <<"B">>
    /\ less_binary(op.listing[2], op.listing[1])

-----------------------------------------------------------------------------
(* _sibling on its own: one call, and a second call on what the first returned *)

\* The names given to _sibling: a base, then up to two fragments, each nothing,
\* a suffix, or a text that is nearly a suffix
SiblingBases == UNION {[1..n -> {"x", "."}] : n \in 0..MaxBase}

SiblingFragments ==
    {<<>>, DATA_SUFFIX, META_SUFFIX,
     <<".", "d", "a", "t">>, <<"m", "e", "t", "a">>, <<".", "D", "A", "T", "A">>}

SiblingNames ==
    {b \o f \o g : b \in SiblingBases, f \in SiblingFragments, g \in SiblingFragments}

InitSibling ==
    /\ config = "absent"
    /\ sources = {}
    /\ jobs = {}
    /\ files = {}
    /\ op = Idle
    /\ uuid = 0
    /\ stored = [n \in Names |-> NoContent]

\* y = _sibling(x)
SiblingCall ==
    /\ op.pc = "idle"
    /\ \E x \in SiblingNames :
        op' = [Idle EXCEPT !.cmd = "sibling", !.name = x,
                           !.listing = <<sibling(x)>>,
                           !.pc = IF sibling(x) = <<"error">> THEN "done" ELSE "called",
                           !.result = IF sibling(x) = <<"error">> THEN "Invalid name" ELSE "none"]
    /\ UNCHANGED <<config, sources, jobs, files, uuid, stored>>

\* z = _sibling(y)
SiblingAgain ==
    /\ op.cmd = "sibling"
    /\ op.pc = "called"
    /\ LET z == sibling(op.listing[1]) IN
       op' = [op EXCEPT !.listing = Append(@, z), !.pc = "done",
                        !.result = IF z = <<"error">> THEN "Invalid name" ELSE "ok"]
    /\ UNCHANGED <<config, sources, jobs, files, uuid, stored>>

NextSibling == SiblingCall \/ SiblingAgain

SpecSibling == InitSibling /\ [][NextSibling]_vars

\* C16: a name ending in .data is mapped to the name of the same length with
\* the same base ending in .meta, and a name ending in .meta likewise to the
\* one ending in .data; the derivation fails for every other name; and the
\* second derivation, on the result of the first, returns the first name.
C16_SiblingInvolution ==
    op.cmd = "sibling" =>
        LET x == op.name
            y == op.listing[1]
            n == Len(x) - 5
            tail(t) == IF Len(t) >= 5 THEN SubSeq(t, Len(t) - 4, Len(t)) ELSE <<>>
            valid == tail(x) \in {DATA_SUFFIX, META_SUFFIX}
        IN /\ valid <=> op.result # "Invalid name"
           /\ valid =>
                /\ Len(y) = Len(x)
                /\ SubSeq(y, 1, n) = SubSeq(x, 1, n)
                /\ tail(y) \in {DATA_SUFFIX, META_SUFFIX}
                /\ tail(y) # tail(x)
           /\ op.pc = "done" /\ valid => op.listing = <<y, x>> /\ op.result = "ok"

C16_Witness ==
    /\ op.cmd = "sibling"
    /\ op.pc = "done"
    /\ op.name = <<"x">> \o DATA_SUFFIX \o META_SUFFIX
    /\ op.listing = << <<"x">> \o DATA_SUFFIX \o DATA_SUFFIX, <<"x">> \o DATA_SUFFIX \o META_SUFFIX >>

-----------------------------------------------------------------------------
(* class OffsetRangeWrapper (src/app/util.py), on a stream of MaxStream bytes
   at most.  The byte at position p of the stream has the value p, so the
   bytes a read returns tell the positions they came from.  op is the
   wrapper: the stream's length and position, the two offsets, and the last
   call made with what it returned. *)

Min(a, b) == IF a < b THEN a ELSE b
Max(a, b) == IF a > b THEN a ELSE b

SEEK_SET == "SEEK_SET"
SEEK_CUR == "SEEK_CUR"
SEEK_END == "SEEK_END"

\* stream.read(n), n >= 0, of a stream of len bytes at position pos: the bytes
\* from pos on, n of them or as many as the stream has
stream_read(len, pos, n) == [i \in 1..Max(0, Min(n, len - pos)) |-> pos + i - 1]

\* __init__(stream, start_offset, end_offset)
OffsetRangeWrapper(len, start_offset, end_offset) ==
    [cmd |-> "wrapper", fn |-> "__init__", arg |-> 0, whence |-> SEEK_SET,
     length |-> len, start_offset |-> start_offset, end_offset |-> end_offset,
     pos |-> start_offset,      \* stream.tell()
     before |-> 0,              \* history: stream.tell() before the last call
     bytes |-> <<>>,            \* what the last call returned, if a read
     ret |-> 0]                 \* what the last call returned, if a seek or tell

InitWrapper ==
    /\ config = "absent"
    /\ sources = {}
    /\ jobs = {}
    /\ files = {}
    /\ uuid = 0
    /\ stored = [n \in Names |-> NoContent]
    /\ \E len \in 0..MaxStream, start_offset \in 0..(MaxStream + 1), end_offset \in 0..(MaxStream + 1) :
        /\ 0 <= start_offset /\ start_offset <= end_offset
        /\ op = OffsetRangeWrapper(len, start_offset, end_offset)

\* Variant of read: the size asked for is passed on as it is
read_unbounded(w, size) ==
    LET n == IF size < 0 THEN w.length ELSE size
        b == stream_read(w.length, w.pos, n)
    IN [w EXCEPT !.fn = "read", !.arg = size, !.whence = SEEK_SET, !.ret = 0, !.before = w.pos,
                 !.bytes = b, !.pos = w.pos + Len(b)]

\* read(size=-1); sys.maxsize is greater than every offset, so that
\* min(sys.maxsize, end_offset - current) is end_offset - current
read(w, size) ==
    LET current == w.pos
        actual == IF size < 0 THEN w.end_offset - current
                  ELSE Min(size, w.end_offset - current)
        b == IF current < w.end_offset THEN stream_read(w.length, current, actual)
             ELSE <<>>
    IN [w EXCEPT !.fn = "read", !.arg = size, !.whence = SEEK_SET, !.ret = 0, !.before = current,
                 !.bytes = b, !.pos = current + Len(b)]

\* Variant of seek: the position is not held back at end_offset
seek_past_end(w, offset, whence) ==
    LET absolute == IF whence = SEEK_CUR THEN w.pos + offset
                    ELSE IF whence = SEEK_END THEN w.end_offset + offset
                    ELSE w.start_offset + offset
        actual == Max(absolute, w.start_offset)
    IN [w EXCEPT !.fn = "seek", !.arg = offset, !.whence = whence,
                 !.before = w.pos, !.bytes = <<>>, !.pos = actual, !.ret = actual]

\* seek(offset, whence=io.SEEK_SET); stream.seek returns the position set
seek(w, offset, whence) ==
    LET absolute == IF whence = SEEK_CUR THEN w.pos + offset
                    ELSE IF whence = SEEK_END THEN w.end_offset + offset
                    ELSE w.start_offset + offset
        actual == Max(Min(absolute, w.end_offset), w.start_offset)
    IN [w EXCEPT !.fn = "seek", !.arg = offset, !.whence = whence,
                 !.before = w.pos, !.bytes = <<>>, !.pos = actual, !.ret = actual]

\* tell()
tell(w) ==
    [w EXCEPT !.fn = "tell", !.arg = 0, !.whence = SEEK_SET, !.before = w.pos,
              !.bytes = <<>>,
              !.ret = w.pos - w.start_offset]

WrapperRead ==
    /\ \E size \in (-1)..(MaxStream + 1) : op' = read(op, size)
    /\ UNCHANGED <<config, sources, jobs, files, uuid, stored>>

WrapperSeek ==
    /\ \E offset \in (-(MaxStream + 1))..(MaxStream + 1), whence \in {SEEK_SET, SEEK_CUR, SEEK_END} :
        op' = seek(op, offset, whence)
    /\ UNCHANGED <<config, sources, jobs, files, uuid, stored>>

WrapperTell ==
    /\ op' = tell(op)
    /\ UNCHANGED <<config, sources, jobs, files, uuid, stored>>

NextWrapper == WrapperRead \/ WrapperSeek \/ WrapperTell

SpecWrapper == InitWrapper /\ [][NextWrapper]_vars

C18_SeekTellClamped ==
    LET span == op.end_offset - op.start_offset
        virtual == op.pos - op.start_offset
        clamped(v) == IF v < 0 THEN 0 ELSE IF v > span THEN span ELSE v
    IN /\ op.start_offset <= op.pos /\ op.pos <= op.end_offset
       /\ op.fn = "tell" => op.ret = virtual /\ 0 <= op.ret /\ op.ret <= span
       /\ (op.fn = "seek" /\ op.whence = SEEK_SET) => virtual = clamped(op.arg)
       /\ (op.fn = "seek" /\ op.whence = SEEK_CUR) =>
            virtual = clamped((op.before - op.start_offset) + op.arg)
       /\ (op.fn = "seek" /\ op.whence = SEEK_END) => virtual = clamped(span + op.arg)

C18_Witness ==
    /\ op.fn = "seek"
    /\ op.length = 6 /\ op.start_offset = 1 /\ op.end_offset = 5
    /\ op.whence = SEEK_CUR
    /\ op.before = 3
    /\ op.arg = 4
    /\ op.pos = 5

-----------------------------------------------------------------------------
(* class SQLite on the file box.db, through instances opened one after
   another.  In this specification config is the file's schema: the tables
   that exist and the value of the row "schema" of settings; sources is the
   rows of the table sources, each as the tuple of its columns, and jobs the
   rows of the table jobs; op is the instance and the last call made on it;
   stored is history: what was saved and not deleted since, with the number
   of the instance that saved it. *)

SQL_SCHEMA_VERSION == <<"3">>
OTHER_SCHEMA_VERSION == <<"2">>     \* the marker another version has stamped

AllTables == {"settings", "sources", "jobs"}

NoDatabase == [tables |-> {}, schema |-> None]

\* _create_tables()
create_tables(db) ==
    [db EXCEPT !.tables = @ \cup {"sources", "jobs"}, !.schema = SQL_SCHEMA_VERSION]

\* Variant of _ensure_tables: a marker of another version is stamped over
ensure_tables_migrating(db) ==
    LET d == [db EXCEPT !.tables = @ \cup {"settings"}]
    IN [ok |-> TRUE, db |-> IF d.schema = SQL_SCHEMA_VERSION THEN d ELSE create_tables(d)]

\* _ensure_tables(); ok is FALSE for 'Unsupported schema version'
ensure_tables(db) ==
    LET d == [db EXCEPT !.tables = @ \cup {"settings"}]
    IN IF d.schema = None THEN [ok |-> TRUE, db |-> create_tables(d)]
       ELSE IF d.schema = SQL_SCHEMA_VERSION THEN [ok |-> TRUE, db |-> d]
       ELSE [ok |-> FALSE, db |-> d]

\* The statements of __init__ one by one, as far as a process that is killed
\* gets: each CREATE TABLE is committed on its own
ensure_tables_prefixes(db) ==
    LET d1 == [db EXCEPT !.tables = @ \cup {"settings"}]
        d2 == [d1 EXCEPT !.tables = @ \cup {"sources"}]
        d3 == [d2 EXCEPT !.tables = @ \cup {"jobs"}]
    IN IF d1.schema = None THEN {db, d1, d2, d3} ELSE {db, d1}

\* values = (source.name, source.comment, source.size, source.data_key, source.meta_key)
values(source) ==
    <<source.name, source.comment, source.size, source.data_key, source.meta_key>>

\* Variant of _to_source: the two keys are taken from each other's column
to_source_swapped(row) ==
    [name |-> row[1], comment |-> row[2], size |-> row[3],
     data_key |-> row[5], meta_key |-> row[4]]

\* _to_source(row)
to_source(row) ==
    [name |-> row[1], comment |-> row[2], size |-> row[3],
     data_key |-> row[4], meta_key |-> row[5]]

\* FakeSource(name) of the tests: keys, no size
FakeSource(name) ==
    [Source(name) EXCEPT !.data_key = <<"d", ":">> \o name, !.meta_key = <<"m", ":">> \o name]

DbSources ==
    {[Source(<<"a">>) EXCEPT !.size = 5, !.data_key = <<"1">> \o DATA_SUFFIX,
                             !.meta_key = <<"1">> \o META_SUFFIX],
     [Source(<<"b">>) EXCEPT !.comment = <<"n">>, !.size = 0,
                             !.data_key = <<"2">> \o DATA_SUFFIX,
                             !.meta_key = <<"2">> \o META_SUFFIX],
     FakeSource(<<"b">>)}

DbJobNames == {<<"a">>, INVENTORY_JOB}

NoStored == [sources |-> {}, jobs |-> {}]

\* The instance: open or not, how many were opened, the last call
Instance(open, inst, fn, name, src, key, result) ==
    [cmd |-> "db", open |-> open, inst |-> inst, fn |-> fn, name |-> name,
     src |-> src, job |-> key, result |-> result]

InitDatabase ==
    /\ \/ /\ config = NoDatabase
          /\ sources = {}
          /\ jobs = {}
       \/ /\ config = [tables |-> AllTables, schema |-> OTHER_SCHEMA_VERSION]
          /\ sources \in SUBSET {values(x) : x \in DbSources}
          /\ jobs \in SUBSET {[name |-> <<"a">>, key |-> <<"f", "o", "o">>]}
    /\ files = {}
    /\ uuid = 0
    /\ stored = NoStored
    /\ op = Instance(FALSE, 0, "none", None, NoSource, None, "none")

\* db = SQLite(path)
DbOpen ==
    /\ ~op.open
    /\ op.inst < MaxOpens
    /\ LET r == ensure_tables(config) IN
       /\ config' = r.db
       /\ op' = Instance(r.ok, op.inst + 1, "open", None, NoSource, None,
                         IF r.ok THEN "ok" ELSE "Unsupported schema version")
    /\ UNCHANGED <<sources, jobs, files, uuid, stored>>

\* db = SQLite(path), the process killed before __init__ returns
DbOpenKilled ==
    /\ ~op.open
    /\ op.inst < MaxOpens
    /\ config' \in ensure_tables_prefixes(config)
    /\ op' = Instance(FALSE, op.inst + 1, "open", None, NoSource, None, "killed")
    /\ UNCHANGED <<sources, jobs, files, uuid, stored>>

\* The process ends
DbClose ==
    /\ op.open
    /\ op' = Instance(FALSE, op.inst, "close", None, NoSource, None, "ok")
    /\ UNCHANGED <<config, sources, jobs, files, uuid, stored>>

DbSaveSource(src) ==
    /\ op.open
    /\ LET r == save_source({to_source(x) : x \in sources}, src) IN
       /\ sources' = IF r.ok THEN sources \cup {values(src)} ELSE sources
       /\ stored' = IF r.ok
                    THEN [stored EXCEPT !.sources = @ \cup {[src |-> src, inst |-> op.inst]}]
                    ELSE stored
       /\ op' = Instance(TRUE, op.inst, "save_source", src.name, src, None,
                         IF r.ok THEN "ok" ELSE "IntegrityError")
    /\ UNCHANGED <<config, jobs, files, uuid>>

DbLoadSource(name) ==
    /\ op.open
    /\ LET r == {x \in sources : x[1] = name} IN
       op' = Instance(TRUE, op.inst, "load_source", name,
                      IF r = {} THEN NoSource ELSE to_source(CHOOSE x \in r : TRUE),
                      None, "ok")
    /\ UNCHANGED <<config, sources, jobs, files, uuid, stored>>

DbDeleteSource(name) ==
    /\ op.open
    /\ sources' = {x \in sources : x[1] # name}
    /\ stored' = [stored EXCEPT !.sources = {e \in @ : e.src.name # name}]
    /\ op' = Instance(TRUE, op.inst, "delete_source", name, NoSource, None, "ok")
    /\ UNCHANGED <<config, jobs, files, uuid>>

DbSaveJob(name, key) ==
    /\ op.open
    /\ LET r == save_job(jobs, name, key) IN
       /\ jobs' = r.jobs
       /\ stored' = IF r.ok
                    THEN [stored EXCEPT !.jobs = @ \cup {[name |-> name, key |-> key, inst |-> op.inst]}]
                    ELSE stored
       /\ op' = Instance(TRUE, op.inst, "save_job", name, NoSource, key,
                         IF r.ok THEN "ok" ELSE "IntegrityError")
    /\ UNCHANGED <<config, sources, files, uuid>>

DbLoadJob(name) ==
    /\ op.open
    /\ op' = Instance(TRUE, op.inst, "load_job", name, NoSource, load_job(jobs, name), "ok")
    /\ UNCHANGED <<config, sources, jobs, files, uuid, stored>>

DbDeleteJob(name) ==
    /\ op.open
    /\ jobs' = delete_job(jobs, name)
    /\ stored' = [stored EXCEPT !.jobs = {e \in @ : e.name # name}]
    /\ op' = Instance(TRUE, op.inst, "delete_job", name, NoSource, None, "ok")
    /\ UNCHANGED <<config, sources, files, uuid>>

NextDatabase ==
    \/ DbOpen
    \/ DbOpenKilled
    \/ DbClose
    \/ \E src \in DbSources : DbSaveSource(src)
    \/ \E name \in Names : DbLoadSource(name)
    \/ \E name \in Names : DbDeleteSource(name)
    \/ \E name \in DbJobNames, key \in JobKeys : DbSaveJob(name, key)
    \/ \E name \in DbJobNames : DbLoadJob(name)
    \/ \E name \in DbJobNames : DbDeleteJob(name)

SpecDatabase == InitDatabase /\ [][NextDatabase]_vars

\* C19: an open that finds no schema marker leaves all three tables in
\* place and the marker at the current version; an open that finds the
\* marker at the current version succeeds and changes nothing; an open that
\* finds another marker fails, and the marker, the tables and their rows are
\* as before.  No open changes a row of sources or jobs.
C19_OpenCatalog ==
    [][(op'.fn = "open" /\ op'.inst = op.inst + 1 /\ op'.result # "killed") =>
          /\ sources' = sources
          /\ jobs' = jobs
          /\ config.schema = None =>
                /\ op'.open
                /\ config'.tables = AllTables
                /\ config'.schema = SQL_SCHEMA_VERSION
          /\ config.schema = SQL_SCHEMA_VERSION =>
                /\ op'.open
                /\ config' = config
          /\ config.schema \notin {None, SQL_SCHEMA_VERSION} =>
                /\ ~op'.open
                /\ op'.result = "Unsupported schema version"
                /\ config' = config]_vars

\* An open has failed on a file that another version stamped and that has
\* rows in both tables.
C19_Witness ==
    /\ op.fn = "open"
    /\ op.result = "Unsupported schema version"
    /\ config.schema = OTHER_SCHEMA_VERSION
    /\ sources # {}
    /\ jobs # {}

C21_UniqueSourceNames ==
    /\ [](\A s1 \in sources, s2 \in sources : s1.name = s2.name => s1 = s2)
    /\ [][(op'.cmd = "save_source" /\ (\E s \in sources : s.name = op'.name)) =>
             /\ op'.result = "IntegrityError"
             /\ sources' = sources
             /\ jobs' = jobs]_vars
    /\ [][(op'.cmd = "delete_source" /\ (\A s \in sources : s.name # op'.name)) =>
             /\ op'.result = "ok"
             /\ sources' = sources
             /\ jobs' = jobs]_vars
    /\ [][(op'.cmd = "delete_job" /\ (\A j \in jobs : j.name # op'.name)) =>
             /\ op'.result = "ok"
             /\ sources' = sources
             /\ jobs' = jobs]_vars

\* A save_source with other keys and another comment for a name that has a
\* Source was refused, and the Source of before is what load_source returns.
C21_Witness ==
    /\ op.cmd = "save_source"
    /\ op.result = "IntegrityError"
    /\ load_source(sources, op.name) # NoSource
    /\ load_source(sources, op.name).data_key # op.src.data_key
    /\ load_source(sources, op.name).comment # op.src.comment

\* C22: every Source of the catalog has a data_key and a meta_key; a Source
\* is added by put only when store_data and store_meta have both been called
\* and returned the two keys it holds, and by refresh only with the two keys
\* of the importable pair in hand; at that moment the backend has an object
\* under each key; and no other command adds a Source.
C22_BothKeysPresent ==
    /\ [](\A s \in sources : s.data_key # None /\ s.meta_key # None)
    /\ [][\A s \in sources' \ sources :
             /\ Exists(files', s.data_key)
             /\ Exists(files', s.meta_key)
             /\ op'.cmd \in {"put", "refresh"}
             /\ op'.cmd = "put" =>
                   /\ op.pc = "save_source"
                   /\ <<"store_data", s.data_key>> \in op.calls
                   /\ <<"store_meta", s.meta_key>> \in op.calls
                   /\ s.data_key # s.meta_key
             /\ op'.cmd = "refresh" =>
                   /\ op.cur.pair \in op.check.importable
                   /\ s.data_key = op.cur.pair.data.key
                   /\ s.meta_key = op.cur.pair.meta.key]_vars

\* The catalog holds a Source that put added and a Source that refresh added.
C22_Witness ==
    /\ op.cmd = "refresh"
    /\ op.pc = "done"
    /\ op.added # {}
    /\ \E s \in sources : [name |-> s.name, key |-> s.meta_key] \in op.added
    /\ \E s \in sources : stored[s.name] # NoContent

\* A data object that no Source refers to and that has no metadata object
\* beside it: what a store leaves that got no further than store_data
PartlyStored(f, srcs, fs) ==
    /\ EndsWith(f.key, DATA_SUFFIX)
    /\ \A s \in srcs : s.data_key # f.key /\ s.meta_key # f.key
    /\ \A g \in fs : g.key # DropLast(f.key, Len(DATA_SUFFIX)) \o META_SUFFIX

C24_TempFileRemoved ==
    /\ []((op.cmd = "get" /\ op.pc = "done") => "data_path" \notin op.tmp)
    /\ [][(op.pc = "extract_archive" /\ op'.pc = "done") =>
             /\ "data_path" \in op.tmp
             /\ op'.tmp = {}]_vars

\* A get has ended in failure after retrieve_finish returned the archive:
\* extract_archive raised, nothing was written, and the file is gone.
C24_Witness ==
    /\ op.cmd = "get"
    /\ op.pc = "done"
    /\ op.result = OPERATION_FAILED
    /\ op.data # NoBody
    /\ op.out = NoContent
    /\ op.tmp = {}

\* C25: put, get, delete, list and refresh on a box that does not exist end
\* at once with 'Box not found.', and get and delete of a name that has no
\* Source end at once with 'Source not found in box.'; in each case no
\* backend call has been made and the catalog, the jobs and the backend are
\* as before.
C25_PreconditionsFirst ==
    /\ []((config = "absent" /\ op.cmd \in {"put", "get", "delete", "list", "refresh"}) =>
             /\ op.pc = "done"
             /\ op.result = BOX_NOT_FOUND
             /\ op.calls = {})
    /\ []((op.pc = "done" /\ op.result \in {BOX_NOT_FOUND, SOURCE_NOT_FOUND}) =>
             op.calls = {})
    /\ [][(/\ op.pc = "idle"
           /\ op'.cmd \in {"put", "get", "delete", "list", "refresh"}
           /\ \/ config = "absent"
              \/ /\ op'.cmd \in {"get", "delete"}
                 /\ \A s \in sources : s.name # op'.name) =>
             /\ op'.pc = "done"
             /\ op'.result = IF config = "absent" THEN BOX_NOT_FOUND ELSE SOURCE_NOT_FOUND
             /\ op'.calls = {}
             /\ <<config', sources', jobs', files'>> = <<config, sources, jobs, files>>]_vars

\* A get of a name that has no Source, but a Job left by an earlier get, has
\* ended with 'Source not found in box.'.
C25_Witness ==
    /\ op.cmd = "get"
    /\ op.pc = "done"
    /\ op.result = SOURCE_NOT_FOUND
    /\ load_job(jobs, op.name) # None
    /\ op.calls = {}

-----------------------------------------------------------------------------
(* cli.py init and Box.init on one box directory, one init after another.
   In this specification config is the box directory and what the backend
   answers: the configuration file (absent, or the backend it names),
   whether the directory is there, the database box.db, whether the keys
   are there, and the backends whose box_init returns; op is the last init
   with its number and, as history, whether an init before it failed in
   box_init. *)

NoBox ==
    [file |-> "absent", dir |-> FALSE, db |-> NoDatabase, keys |-> FALSE,
     answers |-> {}]

\* A mkdir without exist_ok: FileExistsError when the directory is there
mkdir_exclusive(dir) == [ok |-> ~dir, dir |-> TRUE]

\* self.path.mkdir(mode=0o700, parents=True, exist_ok=True)
mkdir(dir) == [ok |-> TRUE, dir |-> TRUE]

\* backend.box_init(): the folder exists / the bucket can be listed
box_init(kind, answers) == kind \in answers

\* cli.py init and init_folder / init_s3 with Box.init; keygen is whether
\* SSH.keygen returns
Box_init(box, kind, keygen) ==
    IF box.file # "absent"
    THEN [result |-> BOX_EXISTS, box |-> box]
    ELSE LET d == mkdir(box.dir)
             e == ensure_tables(box.db)
             b1 == [box EXCEPT !.dir = d.dir]
             b2 == [b1 EXCEPT !.db = e.db]
             b3 == [b2 EXCEPT !.keys = TRUE]
         IN IF ~d.ok THEN [result |-> INIT_FAILED, box |-> box]
            ELSE IF ~e.ok THEN [result |-> INIT_FAILED, box |-> b2]
            ELSE IF ~box.keys /\ ~keygen THEN [result |-> INIT_FAILED, box |-> b2]
            ELSE IF ~box_init(kind, box.answers) THEN [result |-> INIT_FAILED, box |-> b3]
            ELSE [result |-> "ok", box |-> [b3 EXCEPT !.file = kind]]

InitCommand(kind, result, n, failed) ==
    [cmd |-> "init", kind |-> kind, result |-> result, n |-> n, failed |-> failed]

InitInit ==
    /\ \E answers \in SUBSET Backends : config = [NoBox EXCEPT !.answers = answers]
    /\ sources = {}
    /\ jobs = {}
    /\ files = {}
    /\ uuid = 0
    /\ stored = [n \in Names |-> NoContent]
    /\ op = InitCommand("none", "none", 0, FALSE)

\* icebox init BOX folder PATH / icebox init BOX s3 BUCKET
BoxInit ==
    /\ op.n < MaxInits
    /\ \E kind \in Backends, keygen \in BOOLEAN :
         LET r == Box_init(config, kind, keygen) IN
         /\ config' = r.box
         /\ op' = InitCommand(kind, r.result, op.n + 1,
                              op.failed \/ (op.result = INIT_FAILED /\ config.keys))
    /\ UNCHANGED <<sources, jobs, files, uuid, stored>>

\* The folder is made or removed, the bucket comes within reach or goes out of it
BackendChange ==
    /\ \E kind \in Backends :
         config' = [config EXCEPT !.answers =
                       IF kind \in @ THEN @ \ {kind} ELSE @ \cup {kind}]
    /\ UNCHANGED <<sources, jobs, files, uuid, stored, op>>

NextInit == BoxInit \/ BackendChange

SpecInit == InitInit /\ [][NextInit]_vars

\* C26: an init of a box that has a configuration fails with 'Box already
\* exists.' and leaves the box as it is; an init whose box_init raises fails
\* and leaves the box without a configuration; and an init of a box without
\* a configuration whose box_init returns succeeds and writes the
\* configuration, also after an init that failed, provided the keys are
\* there or can be generated.
C26_InitFailsCleanly ==
    [][op'.n = op.n + 1 =>
         /\ config.file # "absent" =>
               /\ op'.result = BOX_EXISTS
               /\ config' = config
         /\ (config.file = "absent" /\ op'.kind \notin config.answers) =>
               /\ op'.result = INIT_FAILED
               /\ config'.file = "absent"
         /\ (config.file = "absent" /\ op'.kind \in config.answers /\ config.keys) =>
               /\ op'.result = "ok"
               /\ config'.file = op'.kind
         /\ op'.result = "ok" <=> config'.file # config.file
         /\ config'.answers = config.answers]_vars

\* An init has succeeded on a box that an earlier init, whose box_init
\* raised, left with directory, database and keys but no configuration.
C26_Witness ==
    /\ op.cmd = "init"
    /\ op.result = "ok"
    /\ op.failed
    /\ op.n = 2
    /\ config.file = op.kind

-----------------------------------------------------------------------------
(* Box.delete on each delete of the backends: folder.py and s3.py of       *)
(* src/icebox, and folder.py of app, whose unlink has no missing_ok.       *)
(* config is the backend, files the objects [key], stored[n] whether a     *)
(* Box.delete of n has failed after removing the data object only.         *)

APP_FOLDER == "app.folder"

DeleteBackends == Backends \cup {APP_FOLDER}

\* Path.unlink(): FileNotFoundError when the file is not there
unlink(fs, key) ==
    [ok |-> \E f \in fs : f.key = key, files |-> {f \in fs : f.key # key}]

\* Backend.delete of the backend kind; ok is FALSE when it raises because
\* the object is absent
Backend_delete(kind, fs, key) ==
    IF kind = APP_FOLDER
    THEN unlink(fs, key)
    ELSE [ok |-> TRUE, files |-> backend_delete(kind, fs, key)]

StoredSource(name) ==
    [Source(name) EXCEPT !.size = 1,
                         !.data_key = name \o DATA_SUFFIX,
                         !.meta_key = name \o META_SUFFIX]

NoDeleteCall == [key |-> None, absent |-> FALSE, raised |-> "none"]

DeleteIdle ==
    [cmd |-> "idle", pc |-> "idle", name |-> None, src |-> NoSource,
     last |-> NoDeleteCall,    \* history: the backend delete called last
     retry |-> FALSE,          \* history: this Box.delete follows a partial one
     result |-> "none"]

InitDelete ==
    /\ config \in DeleteBackends
    /\ sources = {StoredSource(n) : n \in Names}
    /\ files = UNION {{[key |-> s.data_key], [key |-> s.meta_key]} : s \in sources}
    /\ jobs = {}
    /\ uuid = 0
    /\ stored = [n \in Names |-> FALSE]
    /\ op = DeleteIdle

\* One call of backend.delete(key): it returns, it raises because the
\* object is absent, or it raises for another reason and removes nothing.
DeleteCall(key, o, next) ==
    LET r == Backend_delete(config, files, key)
        absent == ~\E f \in files : f.key = key
    IN \/ /\ r.ok
          /\ files' = r.files
          /\ op' = [o EXCEPT !.pc = next,
                              !.last = [key |-> key, absent |-> absent, raised |-> "none"]]
       \/ /\ ~r.ok
          /\ files' = files
          /\ op' = [o EXCEPT !.pc = "done", !.result = OPERATION_FAILED,
                              !.last = [key |-> key, absent |-> absent, raised |-> "missing"]]
       \/ /\ files' = files
          /\ op' = [o EXCEPT !.pc = "done", !.result = OPERATION_FAILED,
                              !.last = [key |-> key, absent |-> absent, raised |-> "other"]]

\* Box.delete(source): load_source; src.data_key of None raises
BoxDeleteBegin(name) ==
    /\ op.pc \in {"idle", "done"}
    /\ LET o == [DeleteIdle EXCEPT !.cmd = "delete", !.name = name,
                                   !.retry = stored[name]] IN
       IF load_source(sources, name) = NoSource
       THEN op' = [o EXCEPT !.pc = "done", !.result = OPERATION_FAILED]
       ELSE op' = [o EXCEPT !.src = load_source(sources, name), !.pc = "delete_data"]
    /\ UNCHANGED <<config, sources, jobs, files, uuid, stored>>

BoxDeleteData ==
    /\ op.cmd = "delete"
    /\ op.pc = "delete_data"
    /\ DeleteCall(op.src.data_key, op, "delete_meta")
    /\ UNCHANGED <<config, sources, jobs, uuid, stored>>

BoxDeleteMeta ==
    /\ op.cmd = "delete"
    /\ op.pc = "delete_meta"
    /\ DeleteCall(op.src.meta_key, op, "delete_source")
    /\ stored' = [stored EXCEPT ![op.name] = @ \/ op'.result = OPERATION_FAILED]
    /\ UNCHANGED <<config, sources, jobs, uuid>>

BoxDeleteSource ==
    /\ op.cmd = "delete"
    /\ op.pc = "delete_source"
    /\ sources' = delete_source(sources, op.name)
    /\ op' = [op EXCEPT !.pc = "done", !.result = "ok"]
    /\ UNCHANGED <<config, jobs, files, uuid, stored>>

\* backend.delete(retrieval_key) called on its own
BackendDelete ==
    /\ op.pc \in {"idle", "done"}
    /\ \E n \in Names, suffix \in {DATA_SUFFIX, META_SUFFIX} :
         DeleteCall(n \o suffix, [DeleteIdle EXCEPT !.cmd = "backend", !.result = "ok"], "done")
    /\ UNCHANGED <<config, sources, jobs, uuid, stored>>

NextDelete ==
    \/ \E name \in Names : BoxDeleteBegin(name)
    \/ BoxDeleteData
    \/ BoxDeleteMeta
    \/ BoxDeleteSource
    \/ BackendDelete

SpecDelete == InitDelete /\ [][NextDelete]_vars

\* C27: a backend delete of a key whose object is absent does not raise
\* because of that and leaves the backend as it is, a delete that returned
\* has left no object under the key, and a Box.delete that follows one which
\* removed the data object only does not fail on the missing object.
C27_DeleteIdempotent ==
    /\ [](op.last.absent => op.last.raised # "missing")
    /\ [](op.retry => op.last.raised # "missing")
    /\ [][(op'.last # NoDeleteCall /\ op'.last.raised = "none") =>
             /\ ~\E f \in files' : f.key = op'.last.key
             /\ op'.last.absent => files' = files]_vars

\* The data object of a Source was removed by a Box.delete whose second
\* backend call failed; the Box.delete given again calls delete for the
\* absent data object, and that call raises.
C27_Witness ==
    /\ op.cmd = "delete"
    /\ op.retry
    /\ op.pc = "done"
    /\ op.result = OPERATION_FAILED
    /\ op.last = [key |-> op.src.data_key, absent |-> TRUE, raised |-> "missing"]
    /\ op.src \in sources
    /\ config = APP_FOLDER

-----------------------------------------------------------------------------
\* The status calls of the running command
StatusCalls(o) ==
    {c \in o.calls : c[1] \in {"retrieve_status", "inventory_status"}}

\* C28: while get or refresh polls a job or sleeps on it, the catalog holds
\* the Job of that name with the key polled: of the source name in get, of
\* INVENTORY_JOB for the inventory, of the metadata key for every metadata
\* job in refresh; and every status call is made on a key that the catalog
\* holds at that moment, also the first one on a job just initiated.
C28_PersistBeforeWait ==
    /\ [](/\ (op.cmd = "get" /\ op.pc \in {"retrieve_status", "sleep"}) =>
              /\ op.job # None
              /\ load_job(jobs, op.name) = op.job
          /\ (op.cmd = "refresh" /\ op.pc = "inventory_status") =>
              /\ op.job # None
              /\ load_job(jobs, INVENTORY_JOB) = op.job
          /\ (op.cmd = "refresh" /\ op.pc = "import") =>
              \A p \in op.pending :
                 /\ p.job # None
                 /\ load_job(jobs, p.pair.meta.key) = p.job)
    /\ [][\A c \in StatusCalls(op') \ StatusCalls(op) :
             \E j \in jobs : j.key = c[2]]_vars

\* A get that found no Job and initiated one sleeps on it, its first status
\* poll made, and the catalog has the Job under the source name.
C28_Witness ==
    /\ op.cmd = "get"
    /\ op.pc = "sleep"
    /\ op.job0 = None
    /\ <<"retrieve_init", op.src.data_key>> \in op.calls
    /\ load_job(jobs, op.name) = op.job

-----------------------------------------------------------------------------
\* C29: a Source leaves the catalog only in the last step of a delete of its
\* name, after backend.delete has been called for its data key and for its
\* metadata key and both have returned, so that the backend holds neither
\* object; a delete that has failed on a backend delete has left the Source
\* in the catalog, where the next delete of the name finds it.
C29_DeleteOrdering ==
    /\ [][\A s \in sources \ sources' :
             /\ op.cmd = "delete"
             /\ op.pc = "delete_source"
             /\ op.src = s
             /\ {<<"delete", s.data_key>>, <<"delete", s.meta_key>>} \subseteq op.calls
             /\ ~Exists(files, s.data_key)
             /\ ~Exists(files, s.meta_key)
             /\ op'.result = "ok"]_vars
    /\ []((op.cmd = "delete" /\ op.pc = "done" /\ op.result = OPERATION_FAILED) =>
             /\ op.src \in sources
             /\ contains(sources, op.name))
    /\ [][(op.cmd = "delete" /\ op.pc \in {"delete_data", "delete_meta"}
            /\ op'.pc = "done") =>
              /\ op'.result = OPERATION_FAILED
              /\ sources' = sources]_vars

\* A delete has failed on the delete of the metadata object, the data
\* object already removed: the Source is still in the catalog.
C29_Witness ==
    /\ op.cmd = "delete"
    /\ op.pc = "done"
    /\ op.result = OPERATION_FAILED
    /\ <<"delete", op.src.meta_key>> \in op.calls
    /\ ~Exists(files, op.src.data_key)
    /\ Exists(files, op.src.meta_key)
    /\ op.src \in sources

-----------------------------------------------------------------------------
\* C30: when retrieve_status or retrieve_finish raises in get, or
\* inventory_status, inventory_finish, or the retrieve_status or
\* retrieve_finish of a metadata job raises in refresh, the operation fails
\* and the catalog still holds the Job of the job in hand with its key; and
\* a step that ends an operation in failure deletes a Job only when the
\* status polled was Failure.
C30_JobLeftForRetry ==
    /\ [][(op'.pc = "done" /\ op'.result = OPERATION_FAILED) =>
             /\ (op.cmd = "get" /\ op.pc \in {"retrieve_status", "retrieve_finish"}) =>
                   load_job(jobs', op.name) = op.job
             /\ (op.cmd = "refresh" /\ op.pc = "inventory_status") =>
                   load_job(jobs', INVENTORY_JOB) = op.job
             /\ (op.cmd = "refresh" /\ op.pc = "import" /\ op.todo = {}) =>
                   /\ load_job(jobs', INVENTORY_JOB) = op.job
                   /\ \A p \in op.pending : load_job(jobs', p.pair.meta.key) = p.job
             /\ (op.cmd = "refresh" /\ op.pc = "import_finish" /\ op'.tmp = {}) =>
                   /\ load_job(jobs', INVENTORY_JOB) = op.job
                   /\ load_job(jobs', op.cur.pair.meta.key) = op.cur.job]_vars
    /\ [][(op'.pc = "done" /\ op'.result # "ok" /\ jobs \ jobs' # {}) =>
             "failure" \in {op'.status, op'.istatus}]_vars

\* A refresh has failed on the retrieve_finish of a metadata job whose
\* status was Success: the Job of the metadata key is gone from the catalog,
\* the inventory Job is still there.
C30_Witness ==
    /\ op.cmd = "refresh"
    /\ op.pc = "done"
    /\ op.result = OPERATION_FAILED
    /\ op.status = "success"
    /\ op.cur # NoCur
    /\ <<"retrieve_finish", op.cur.job>> \in op.calls
    /\ op.tmp = {}
    /\ load_job(jobs, op.cur.pair.meta.key) = None
    /\ load_job(jobs, INVENTORY_JOB) = op.job

-----------------------------------------------------------------------------
\* C31: the check records a Source of the catalog as broken exactly when the
\* inventory lacks its data key or its metadata key, with exactly the keys
\* lacking as the missing list; it records no other name; and an inventory
\* entry under a key of any Source, broken or not, is neither reported
\* dangling nor part of an importable pair.
C31_BrokenSources ==
    op.cmd = "check" =>
        LET keys == {f.key : f \in files}
            recorded(s) == {b \in op.check.broken_sources : b.name = s.name}
            absent(s) == {s.data_key, s.meta_key} \ keys
        IN /\ \A s \in sources :
                 /\ recorded(s) # {} <=> absent(s) # {}
                 /\ \A b \in recorded(s) :
                       /\ {b.missing[i] : i \in DOMAIN b.missing} = absent(s)
                       /\ Len(b.missing) = Cardinality(absent(s))
                 /\ Cardinality(recorded(s)) <= 1
                 /\ \A f \in inventory_finish(config, files) :
                       f.key \in {s.data_key, s.meta_key} =>
                          /\ f \notin op.check.broken_backend
                          /\ \A p \in op.check.importable : f # p.meta /\ f # p.data
           /\ \A b \in op.check.broken_sources : \E s \in sources : s.name = b.name

\* The check has recorded a Source for its metadata key alone, its data
\* file being in the inventory, next to a Source that is not recorded.
C31_Witness ==
    /\ op.cmd = "check"
    /\ \E s \in sources :
          /\ Exists(files, s.data_key)
          /\ [name |-> s.name, missing |-> <<s.meta_key>>] \in op.check.broken_sources
    /\ \E s \in sources :
          /\ Exists(files, s.data_key)
          /\ Exists(files, s.meta_key)

-----------------------------------------------------------------------------
\* The finish calls of the running command
FinishCalls(o) ==
    {c \in o.calls : c[1] \in {"retrieve_finish", "inventory_finish"}}

\* C32: retrieve_finish is called for a job only when the last status polled
\* by the running command was Success and was polled for that job, in get
\* and for the metadata jobs of refresh; inventory_finish is called only when
\* the inventory status just polled was Success.
C32_FinishAfterSuccess ==
    [][\A c \in FinishCalls(op') \ FinishCalls(op) :
          /\ c[1] = "retrieve_finish" =>
                /\ op.status = "success"
                /\ <<"retrieve_status", c[2]>> \in op.calls
                /\ op.cmd = "get" => c[2] = op.job
                /\ op.cmd = "refresh" => c[2] = op.cur.job
          /\ c[1] = "inventory_finish" =>
                /\ op'.istatus = "success"
                /\ <<"inventory_status", c[2]>> \in op'.calls]_vars

\* A get has called retrieve_finish for the job of an archived S3 object
\* whose restore has completed, after a poll that answered Success.
C32_Witness ==
    /\ op.cmd = "get"
    /\ op.pc = "extract_archive"
    /\ op.status = "success"
    /\ <<"retrieve_finish", op.job>> \in op.calls
    /\ \E f \in files : f.key = op.job /\ f.restore = "complete"

-----------------------------------------------------------------------------
\* C33: when a command has ended, with or without error, none of its
\* temporary files is left: not the staging directory of put, and not the
\* metadata file that refresh downloaded with retrieve_finish.
C33_TempFilesRemoved ==
    op.pc = "done" =>
        /\ op.cmd = "put" => "store_dir" \notin op.tmp
        /\ op.cmd = "refresh" => "meta_path" \notin op.tmp

\* A refresh has failed on reading the metadata archive that
\* retrieve_finish downloaded: the downloaded file is still there.
C33_Witness ==
    /\ op.cmd = "refresh"
    /\ op.pc = "done"
    /\ op.result = OPERATION_FAILED
    /\ <<"retrieve_finish", op.cur.job>> \in op.calls
    /\ "meta_path" \in op.tmp

-----------------------------------------------------------------------------
(* The waits on their own: get on an S3 box whose data objects are          *)
(* archived, and the inventory wait of refresh (box.py 188-197) on the      *)
(* Glacier backend of app, the one backend whose inventory job can be       *)
(* running.  stored is the status code of the Glacier inventory job.        *)

GLACIER == "glacier"

GLACIER_JOB == <<"j">>

JobCodes == {"none", "InProgress", "Succeeded", "Failed"}

\* _job_status: job.load() raising ClientError is failure, status_code
\* Succeeded is success, Failed is failure, anything else running
glacier_job_status(code) ==
    IF code = "none" THEN "failure"
    ELSE IF code = "Succeeded" THEN "success"
    ELSE IF code = "Failed" THEN "failure"
    ELSE "running"

ArchivedObjects(name, restore) ==
    LET body == create_archive(CHOOSE i \in Inputs : i.name = name, 1) IN
    {[key |-> name \o DATA_SUFFIX, body |-> body, class |-> "ARCHIVE", restore |-> restore],
     [key |-> name \o META_SUFFIX, body |-> export_metadata(body), class |-> "STANDARD",
      restore |-> "none"]}

InitPoll ==
    /\ op = Idle
    /\ uuid = 0
    /\ \/ /\ config = "s3"
          /\ sources = {StoredSource(n) : n \in Names}
          /\ \E r \in [Names -> {"none", "running", "complete"}] :
                files = UNION {ArchivedObjects(n, r[n]) : n \in Names}
          /\ jobs \in SUBSET {[name |-> n, key |-> n \o DATA_SUFFIX] : n \in Names}
          /\ stored = "none"
       \/ /\ config = GLACIER
          /\ sources = {}
          /\ files = {}
          /\ \/ jobs = {} /\ stored = "none"
             \/ jobs = {[name |-> INVENTORY_JOB, key |-> GLACIER_JOB]} /\ stored \in JobCodes

\* refresh up to the wait: the inventory job found, or inventory_init and save_job
InventoryBegin ==
    /\ config = GLACIER
    /\ op.pc = "idle"
    /\ LET job == load_job(jobs, INVENTORY_JOB)
           o == [Idle EXCEPT !.cmd = "refresh", !.job0 = job] IN
       IF job # None
       THEN /\ op' = [o EXCEPT !.job = job, !.pc = "inventory_status"]
            /\ UNCHANGED <<jobs, stored>>
       ELSE /\ stored' = "InProgress"
            /\ jobs' = save_job(jobs, INVENTORY_JOB, GLACIER_JOB).jobs
            /\ op' = [Call(o, "inventory_init", None) EXCEPT
                         !.job = GLACIER_JOB, !.pc = "inventory_status"]
    /\ UNCHANGED <<config, sources, files, uuid>>

\* status = backend.inventory_status(inventory_job), first and in the loop;
\* on failure delete_job and raise; otherwise refresh goes on to inventory_finish
InventoryPoll ==
    /\ config = GLACIER
    /\ op.pc = "inventory_status"
    /\ LET status == glacier_job_status(stored)
           o == [Call(op, "inventory_status", op.job) EXCEPT !.istatus = status] IN
       IF still_running(status)
       THEN /\ op' = [o EXCEPT !.pc = "inventory_sleep"]
            /\ UNCHANGED jobs
       ELSE IF status = "failure"
       THEN /\ op' = Done(o, INVENTORY_FAILED)
            /\ jobs' = delete_job(jobs, INVENTORY_JOB)
       ELSE /\ op' = [Call(o, "inventory_finish", op.job) EXCEPT !.pc = "import"]
            /\ UNCHANGED jobs
    /\ UNCHANGED <<config, sources, files, uuid, stored>>

\* time.sleep(60)
InventorySleep ==
    /\ op.pc = "inventory_sleep"
    /\ op' = [op EXCEPT !.pc = "inventory_status"]
    /\ UNCHANGED <<config, sources, jobs, files, uuid, stored>>

\* The rest of refresh, not followed here, to its delete_job(INVENTORY_JOB)
InventoryRest ==
    /\ config = GLACIER
    /\ op.pc = "import"
    /\ jobs' = delete_job(jobs, INVENTORY_JOB)
    /\ op' = Done(op, "ok")
    /\ UNCHANGED <<config, sources, files, uuid, stored>>

\* Glacier ends the inventory job
GlacierJobEnds ==
    /\ stored = "InProgress"
    /\ stored' \in {"Succeeded", "Failed"}
    /\ UNCHANGED <<config, sources, jobs, files, uuid, op>>

PollGet ==
    /\ config = "s3"
    /\ \/ \E name \in Names : GetBegin(name)
       \/ GetRetrieveInit
       \/ GetSaveJob
       \/ GetRetrieveStatus
       \/ GetSleep
       \/ GetRetrieveFinish
       \/ GetExtract

NextPoll ==
    \/ PollGet
    \/ S3RestoreComplete
    \/ InventoryBegin
    \/ InventoryPoll
    \/ InventorySleep
    \/ InventoryRest
    \/ GlacierJobEnds
    \/ Exit

SpecPoll == InitPoll /\ [][NextPoll]_vars

\* The command keeps running: one statement follows the other.  Nothing is
\* assumed of the backend's jobs.
SpecPollFair ==
    /\ SpecPoll
    /\ WF_vars(GetRetrieveStatus)
    /\ WF_vars(GetSleep)
    /\ WF_vars(InventoryPoll)
    /\ WF_vars(InventorySleep)

\* The command is in a wait: about to poll, or asleep between two polls
Polling ==
    \/ op.cmd = "get" /\ op.pc \in {"retrieve_status", "sleep"}
    \/ op.cmd = "refresh" /\ op.pc \in {"inventory_status", "inventory_sleep"}

\* The backend would answer Running for the job waited on
JobRunning ==
    \/ op.cmd = "get" /\ Polling /\ retrieve_status(config, files, op.job) = "running"
    \/ op.cmd = "refresh" /\ Polling /\ glacier_job_status(stored) = "running"

\* C34: a wait whose job is not Running for ever comes to an end; it ends
\* with the finish call after a poll that answered Success, or with the
\* command failed; and no step of a command in a wait changes the Sources
\* of the catalog or the objects of the backend.
C34_PollerTerminates ==
    /\ (<>[](~JobRunning)) => (Polling ~> ~Polling)
    /\ [][(Polling /\ ~Polling') =>
             \/ /\ op'.cmd = "get"
                /\ op'.pc = "retrieve_finish"
                /\ op'.status = "success"
             \/ /\ op'.cmd = "refresh"
                /\ op'.pc = "import"
                /\ op'.istatus = "success"
                /\ <<"inventory_finish", op.job>> \in op'.calls
             \/ /\ op'.pc = "done"
                /\ op'.result \in {TRANSFER_FAILED, INVENTORY_FAILED, OPERATION_FAILED}
                /\ op'.result \in {TRANSFER_FAILED, INVENTORY_FAILED} <=>
                      "failure" \in {op'.status, op'.istatus}]_vars
    /\ [][(Polling /\ op' # op) => (sources' = sources /\ files' = files)]_vars

\* A get that initiated its job sleeps after a poll that answered Running,
\* and the restore has completed meanwhile: the next poll ends the wait.
C34_Witness ==
    /\ op.cmd = "get"
    /\ op.pc = "sleep"
    /\ op.status = "running"
    /\ op.job0 = None
    /\ \E f \in files : f.key = op.job /\ f.restore = "complete"

-----------------------------------------------------------------------------
(* app/backend/glacier.py: Backend.store.  op is the call: the size of the *)
(* file, the offset of the loop, and what the vault was sent.              *)

PART_SIZE == 64 * 1024 * 1024
MULTIPART_LIMIT == 100 * 1024 * 1024

\* Sizes around the limit and around the multiples of the part size
ArchiveSizes ==
    {n \in {k * PART_SIZE + d : k \in 0..MaxParts, d \in -1..1} \cup
            {MULTIPART_LIMIT + d : d \in -1..1} : n >= 0}

\* A part end that is not cut at the end of the file
max_offset_uncut(size, offset) == offset + PART_SIZE

\* max_offset = min(size, offset + PART_SIZE)
max_offset(size, offset) == Min(size, offset + PART_SIZE)

GlacierStore(size) ==
    [cmd |-> "store", pc |-> "store", size |-> size, offset |-> 0,
     archives |-> <<>>,     \* upload_archive calls, by the size of the body
     initiated |-> 0,       \* initiate_multipart_upload calls
     parts |-> <<>>,        \* upload_part calls: [from, to), to is max_offset
     completed |-> <<>>,    \* complete calls, by archiveSize
     result |-> "none"]

InitGlacier ==
    /\ config = GLACIER
    /\ sources = {}
    /\ jobs = {}
    /\ files = {}
    /\ uuid = 0
    /\ stored = "none"
    /\ \E size \in ArchiveSizes : op = GlacierStore(size)

\* if size < MULTIPART_LIMIT: upload_archive(body=f)
StoreArchive ==
    /\ op.cmd = "store"
    /\ op.pc = "store"
    /\ op.size < MULTIPART_LIMIT
    /\ \/ op' = [op EXCEPT !.archives = Append(@, op.size),
                           !.pc = "done", !.result = "ok"]
       \/ \* upload_archive raises
          op' = [op EXCEPT !.pc = "done", !.result = OPERATION_FAILED]
    /\ UNCHANGED <<config, sources, jobs, files, uuid, stored>>

\* else: initiate_multipart_upload(partSize=PART_SIZE); offset = 0
StoreInitiate ==
    /\ op.cmd = "store"
    /\ op.pc = "store"
    /\ op.size >= MULTIPART_LIMIT
    /\ \/ op' = [op EXCEPT !.initiated = @ + 1, !.offset = 0, !.pc = "part"]
       \/ \* initiate_multipart_upload raises
          op' = [op EXCEPT !.pc = "done", !.result = OPERATION_FAILED]
    /\ UNCHANGED <<config, sources, jobs, files, uuid, stored>>

\* while offset < size: upload_part(range, OffsetRangeWrapper(f, offset,
\* max_offset)); offset += PART_SIZE
StorePart ==
    /\ op.cmd = "store"
    /\ op.pc = "part"
    /\ op.offset < op.size
    /\ \/ op' = [op EXCEPT
                    !.parts = Append(@, [from |-> op.offset,
                                         to |-> max_offset(op.size, op.offset)]),
                    !.offset = @ + PART_SIZE]
       \/ \* upload_part raises
          op' = [op EXCEPT !.pc = "done", !.result = OPERATION_FAILED]
    /\ UNCHANGED <<config, sources, jobs, files, uuid, stored>>

\* mpu.complete(archiveSize=str(size), checksum=treehash)
StoreComplete ==
    /\ op.cmd = "store"
    /\ op.pc = "part"
    /\ ~(op.offset < op.size)
    /\ \/ op' = [op EXCEPT !.completed = Append(@, op.size),
                           !.pc = "done", !.result = "ok"]
       \/ \* complete raises
          op' = [op EXCEPT !.pc = "done", !.result = OPERATION_FAILED]
    /\ UNCHANGED <<config, sources, jobs, files, uuid, stored>>

NextGlacier == StoreArchive \/ StoreInitiate \/ StorePart \/ StoreComplete

SpecGlacier == InitGlacier /\ [][NextGlacier]_vars

\* C35: a store that has returned sent a file below MULTIPART_LIMIT in one
\* upload_archive call and nothing else; a file of that size or more it sent
\* in parts [from, to) that start at 0, each begin where the one before
\* ended, end at the size, are PART_SIZE long except the last, which is
\* between 1 and PART_SIZE long, and it called complete once, with the size;
\* and at every moment the parts sent so far are such a sequence up to the
\* offset of the loop.
C35_MultipartSlicing ==
    op.cmd = "store" =>
       LET n == Len(op.parts) IN
       /\ \A i \in 1..n :
             /\ op.parts[i].from = (i - 1) * PART_SIZE
             /\ op.parts[i].from < op.parts[i].to
             /\ op.parts[i].to - op.parts[i].from <= PART_SIZE
             /\ op.parts[i].to <= op.size
             /\ i < n => /\ op.parts[i].to = op.parts[i + 1].from
                         /\ op.parts[i].to - op.parts[i].from = PART_SIZE
       /\ (op.pc = "done" /\ op.result = "ok") =>
             IF op.size < MULTIPART_LIMIT
             THEN /\ op.archives = <<op.size>>
                  /\ op.initiated = 0
                  /\ op.parts = <<>>
                  /\ op.completed = <<>>
             ELSE /\ op.archives = <<>>
                  /\ op.initiated = 1
                  /\ n >= 1
                  /\ op.parts[1].from = 0
                  /\ op.parts[n].to = op.size
                  /\ op.completed = <<op.size>>

\* A file one byte longer than two parts has been stored in three parts,
\* the last of one byte.
C35_Witness ==
    /\ op.cmd = "store"
    /\ op.pc = "done"
    /\ op.result = "ok"
    /\ op.size = 2 * PART_SIZE + 1
    /\ Len(op.parts) = 3
    /\ op.parts[3] = [from |-> 2 * PART_SIZE, to |-> 2 * PART_SIZE + 1]

-----------------------------------------------------------------------------
\* C36: every Job of the catalog under a source name belongs to a Source of
\* that name and has the key retrieve_init gave for that Source's data_key,
\* which for these backends is the data_key itself; and a get polls and
\* downloads only by the data_key of the Source it loaded.
C36_JobOfCurrentArchive ==
    /\ \A j \in jobs :
          j.name \in Names =>
             /\ contains(sources, j.name)
             /\ j.key = load_source(sources, j.name).data_key
    /\ op.cmd = "get" =>
          \A c \in op.calls :
             c[1] \in {"retrieve_status", "retrieve_finish"} => c[2] = op.src.data_key

\* A source was deleted while a Job of its name was in the catalog and was
\* stored again under the same name: the get of it has polled the job of
\* the deleted archive, whose object is gone, and has failed.
C36_Witness ==
    /\ op.cmd = "get"
    /\ op.pc = "done"
    /\ op.result # "ok"
    /\ op.src \in sources
    /\ op.job # op.src.data_key
    /\ <<"retrieve_status", op.job>> \in op.calls
    /\ ~Exists(files, op.job)
    /\ Exists(files, op.src.data_key)
    /\ Exists(files, op.src.meta_key)

-----------------------------------------------------------------------------
(* Two invocations of Box.retrieve for the same source on one catalog, one  *)
(* statement of one of them at a time.  op[p] is invocation p, stored the   *)
(* invocation whose save_job wrote the Job that is in the catalog.          *)

Procs == {1, 2}

RACE_NAME == <<"a">>

RaceIdle ==
    [pc |-> "idle", src |-> NoSource, job |-> None, status |-> "none",
     saved |-> FALSE,       \* history: its save_job returned
     refused |-> FALSE,     \* history: its save_job raised
     result |-> "none"]

InitRace ==
    /\ config \in Backends
    /\ sources = {StoredSource(RACE_NAME)}
    /\ files = ArchivedObjects(RACE_NAME, "none")
    /\ jobs = {}
    /\ uuid = 0
    /\ stored = 0
    /\ op = [p \in Procs |-> RaceIdle]

\* source = load_source(name); job = load_job(name)
RaceBegin(p) ==
    /\ op[p].pc = "idle"
    /\ LET job == load_job(jobs, RACE_NAME) IN
       op' = [op EXCEPT ![p].src = load_source(sources, RACE_NAME),
                        ![p].job = job,
                        ![p].pc = IF job = None THEN "retrieve_init"
                                  ELSE "retrieve_status"]
    /\ UNCHANGED <<config, sources, jobs, files, uuid, stored>>

\* job = backend.retrieve_init(source.data_key, backend_options)
RaceRetrieveInit(p) ==
    /\ op[p].pc = "retrieve_init"
    /\ LET r == retrieve_init(config, files, op[p].src.data_key) IN
       \/ /\ r.ok
          /\ files' = r.files
          /\ op' = [op EXCEPT ![p].job = r.job, ![p].pc = "save_job"]
       \/ \* retrieve_init raises
          /\ op' = [op EXCEPT ![p].pc = "done", ![p].result = OPERATION_FAILED]
          /\ UNCHANGED files
    /\ UNCHANGED <<config, sources, jobs, uuid, stored>>

\* self._db.save_job(name, job): IntegrityError when the name has a row
RaceSaveJob(p) ==
    /\ op[p].pc = "save_job"
    /\ LET r == save_job(jobs, RACE_NAME, op[p].job) IN
       /\ jobs' = r.jobs
       /\ stored' = IF r.ok THEN p ELSE stored
       /\ op' = IF r.ok
                THEN [op EXCEPT ![p].saved = TRUE, ![p].pc = "retrieve_status"]
                ELSE [op EXCEPT ![p].refused = TRUE, ![p].pc = "done",
                                ![p].result = OPERATION_FAILED]
    /\ UNCHANGED <<config, sources, files, uuid>>

\* status = backend.retrieve_status(job), with the sleep before the next poll
RaceRetrieveStatus(p) ==
    /\ op[p].pc = "retrieve_status"
    /\ \E status \in {retrieve_status(config, files, op[p].job), "error"} :
          IF status = "error"
          THEN /\ op' = [op EXCEPT ![p].pc = "done", ![p].result = OPERATION_FAILED]
               /\ UNCHANGED <<jobs, stored>>
          ELSE IF still_running(status)
          THEN /\ op' = [op EXCEPT ![p].status = status]
               /\ UNCHANGED <<jobs, stored>>
          ELSE IF status = "failure"
          THEN /\ jobs' = clear_failed_job(jobs, RACE_NAME)
               /\ stored' = 0
               /\ op' = [op EXCEPT ![p].status = status, ![p].pc = "done",
                                    ![p].result = TRANSFER_FAILED]
          ELSE /\ op' = [op EXCEPT ![p].status = status, ![p].pc = "retrieve_finish"]
               /\ UNCHANGED <<jobs, stored>>
    /\ UNCHANGED <<config, sources, files, uuid>>

\* data_path = backend.retrieve_finish(job); delete_job(name); the archive
\* is extracted and the invocation returns
RaceRetrieveFinish(p) ==
    /\ op[p].pc = "retrieve_finish"
    /\ \/ /\ retrieve_finish(config, files, op[p].job).ok
          /\ jobs' = clear_finished_job(jobs, RACE_NAME)
          /\ stored' = 0
          /\ op' = [op EXCEPT ![p].pc = "done", ![p].result = "ok"]
       \/ \* retrieve_finish raises
          /\ op' = [op EXCEPT ![p].pc = "done", ![p].result = OPERATION_FAILED]
          /\ UNCHANGED <<jobs, stored>>
    /\ UNCHANGED <<config, sources, files, uuid>>

\* S3 finishes the restore
RaceRestoreComplete ==
    /\ \E f \in files :
         /\ f.restore = "running"
         /\ files' = (files \ {f}) \cup {[f EXCEPT !.restore = "complete"]}
    /\ UNCHANGED <<config, sources, jobs, uuid, op, stored>>

NextRace ==
    \/ \E p \in Procs : RaceBegin(p)
    \/ \E p \in Procs : RaceRetrieveInit(p)
    \/ \E p \in Procs : RaceSaveJob(p)
    \/ \E p \in Procs : RaceRetrieveStatus(p)
    \/ \E p \in Procs : RaceRetrieveFinish(p)
    \/ RaceRestoreComplete

SpecRace == InitRace /\ [][NextRace]_vars

RaceJobs == {j \in jobs : j.name = RACE_NAME}

\* C37 as stated: of two invocations that both found no Job at most one
\* save_job succeeds, and then the other invocation fails.
C37_AsStated ==
    /\ Cardinality(RaceJobs) <= 1
    /\ Cardinality({p \in Procs : op[p].saved}) <= 1

\* C37: the catalog never holds two Jobs of the name; a save_job made while
\* the catalog holds a Job of the name raises, fails its invocation and
\* leaves the Job as it is; a save_job made while it holds none writes the
\* Job with the key of its invocation; and the Job in the catalog always has
\* the key of the invocation whose save_job wrote it.
C37_SaveJobExclusive ==
    /\ [](/\ Cardinality(RaceJobs) <= 1
          /\ RaceJobs # {} =>
                /\ stored \in Procs
                /\ op[stored].saved
                /\ load_job(jobs, RACE_NAME) = op[stored].job)
    /\ [][\A p \in Procs :
             (op[p].pc = "save_job" /\ op'[p].pc # "save_job") =>
                IF RaceJobs # {}
                THEN /\ op'[p].refused
                     /\ ~op'[p].saved
                     /\ op'[p].pc = "done"
                     /\ op'[p].result = OPERATION_FAILED
                     /\ jobs' = jobs
                     /\ stored' = stored
                ELSE /\ op'[p].saved
                     /\ jobs' = {[name |-> RACE_NAME, key |-> op[p].job]}
                     /\ stored' = p]_vars

\* Both invocations found no Job and called retrieve_init; the save_job of
\* the one returned, the save_job of the other raised while that Job was in
\* the catalog, which is still there.
C37_Witness ==
    \E p \in Procs, q \in Procs :
       /\ p # q
       /\ op[p].saved
       /\ op[q].refused
       /\ op[q].result = OPERATION_FAILED
       /\ stored = p
       /\ RaceJobs = {[name |-> RACE_NAME, key |-> op[p].job]}

-----------------------------------------------------------------------------
\* The inventory entries no Source refers to whose name ends in neither suffix
OtherEntries ==
    {f \in UnclaimedEntries :
        ~EndsWith(f.name, DATA_SUFFIX) /\ ~EndsWith(f.name, META_SUFFIX)}

\* C38: an inventory entry no Source refers to, with a name ending in neither
\* '.data' nor '.meta', is in no importable pair and is not reported
\* dangling, and the check is the one of the inventory without such entries:
\* what refresh does after the check, the metadata jobs it starts and
\* whether it fails, is what it does without them.
C38_OtherEntriesIgnored ==
    op.cmd = "check" =>
        /\ \A f \in OtherEntries :
              /\ f \notin op.check.broken_backend
              /\ \A p \in op.check.importable : p.meta # f /\ p.data # f
              /\ \A b \in op.check.broken_sources :
                    \A i \in DOMAIN b.missing : b.missing[i] # f.key
        /\ op.check =
              InventoryCheck(sources, inventory_finish(config, files) \ OtherEntries)

\* Two entries of other names next to an importable pair, a dangling file and
\* a catalogued Source that misses a file.
C38_Witness ==
    /\ op.cmd = "check"
    /\ Cardinality(OtherEntries) = 2
    /\ Cardinality(op.check.importable) = 1
    /\ Cardinality(op.check.broken_backend) = 0
    /\ Cardinality(op.check.broken_sources) = 1

-----------------------------------------------------------------------------
\* C39: on a view with start_offset > 0, what seek returned is what a tell()
\* made next returns, for every whence and offset.
C39_SeekReturnsVirtual ==
    (op.fn = "seek" /\ op.start_offset > 0) => op.ret = tell(op).ret

\* The view [1, 5) of a stream of 6 bytes: seek(1) has returned 2, the
\* position of the stream, and tell() returns 1.
C39_Witness ==
    /\ op.fn = "seek"
    /\ op.length = 6 /\ op.start_offset = 1 /\ op.end_offset = 5
    /\ op.whence = SEEK_SET
    /\ op.arg = 1
    /\ op.ret = 2
    /\ tell(op).ret = 1

====
